---------------------------- MODULE Spec2Model ----------------------------
(***************************************************************************)
(* Callable-bond pricer: the orchestrator (MasterPricer, the rate-shift    *)
(* sweep) and the three manual engines (Hull-White LSMC, CIR PDE,          *)
(* BK-style trinomial tree).                                               *)
(*                                                                         *)
(* Numbers.  Rates and spreads are integers in basis points; prices and    *)
(* dimensionless factors are fixed-point integers with FP units per 1.0.   *)
(* A curve object is the sequence of zero spreads (bps) stacked on the     *)
(* curve that the loader built: << >> is that curve, <<10>> is             *)
(* ZeroSpreadedTermStructure(<< >>, 10bp), <<10, 50>> a spread on top.     *)
(***************************************************************************)
EXTENDS Integers, Sequences, FiniteSets, TLC

VARIABLES
    ts_base,    \* the current link of the shared relinkable handle
    cfg,        \* the numerical knobs the pricer was built with
    accrued,    \* ql_straight.accruedAmount(), fixed by the evaluation date
    pc,         \* per caller: position inside metrics / price_vs_rate_shift
    op,         \* per caller: the arguments of the running operation
    base_ptr,   \* per caller: the local base_ptr
    state,      \* per caller: the local state (cache returned by the base call)
    prices,     \* per caller: the locals P0, Pup, Pdn
    exc,        \* per caller: an exception is propagating
    entry,      \* per caller: the link of ts_base when the operation was entered
    calls,      \* per caller: the calculate calls the operation has made so far
    ret,        \* per caller: what the operation returned
    mcIn,       \* MC engine: cfg, params and bond data of the session
    mcCache,    \* MC engine: the state-cache dict the session holds
    mc,         \* MC engine: the locals of the running price call
    mcRef,      \* MC engine: what the first cache-less call on the unbumped
                \* curve returned, and what has happened since
    np_random,  \* the process-wide numpy random state
    pdeIn,      \* PDE engine: cfg, params and bond data of the session
    pdeCache,   \* PDE engine: the state-cache dict the session holds
    pde,        \* PDE engine: the locals of the running price call
    treeIn,     \* tree engine: cfg, params and bond data of the session
    treeCache,  \* tree engine: the state-cache dict the session holds
    tree,       \* tree engine: the locals of the running price call
    par         \* engine calls side by side: per engine, whether the running
                \* call has had the engines to itself, and what a call of
                \* each kind that had returned

orchVars == <<ts_base, cfg, accrued, pc, op, base_ptr, state, prices, exc,
              entry, calls, ret>>

mcVars == <<mcIn, mcCache, mc, mcRef, np_random>>

pdeVars == <<pdeIn, pdeCache, pde>>

treeVars == <<treeIn, treeCache, tree>>

parVars == <<par>>

vars == <<orchVars, mcVars, pdeVars, treeVars, parVars>>

-----------------------------------------------------------------------------
(* Bounds of the model *)

NProcs == 2            \* callers that may hold the pricer
MaxCurveDepth == 3     \* spreads stacked on the loaded curve

Procs == 1..NProcs

None == << >>          \* Python's None, as a cache
ExtCache == <<0, 0>>   \* a cache object the caller already holds
Fresh(p, k) == <<p, k>>     \* the dict created by caller p's k-th calculate

Methods == {"STRAIGHT BOND", "HW_LSMC", "CIR_PDE", "KWF_MANUAL", "BK_MANUAL",
            "HW_QL_TREE", "BK_QL_TREE"}
ManualKeys == {"HW_LSMC", "CIR_PDE", "KWF_MANUAL"}
SmokeKeys == {"STRAIGHT BOND", "HW_LSMC", "CIR_PDE", "BK_MANUAL"}

OasChoices == {0, 50}
BumpChoices == {0, 10}
AccruedChoices == {0, 2}
DirtyChoices == {100, 102, 104}
ShiftLists == {<< >>, <<100>>, <<-100, 100>>}
ScenarioLists == {<<"STRAIGHT BOND">>, <<"CIR_PDE", "HW_LSMC">>,
                  <<"BK_MANUAL", "CIR_PDE">>}

\* What the environment decides in one engine call: the dirty price the
\* numerics produce and whether the numerics (or QuantLib) raise.
Envs == [dirty : DirtyChoices, fault : BOOLEAN]

-----------------------------------------------------------------------------
(* MasterPricer.calculate *)

\* AppConfig.__init__ sets kwf_steps_year and no bk_steps_year; the tree engine
\* reads cfg.bk_steps_year when it is given no cache.  NoAttr is the attribute
\* being absent (AppConfig as constructed); a caller may have set it.
NoAttr == 0

\* (mutant) the spread is put on the curve even when it is zero
make_ts_with_oas_always(lnk, oas_decimal) == Append(lnk, oas_decimal)

make_ts_with_oas(lnk, oas_decimal) ==
    IF oas_decimal = 0 THEN lnk ELSE Append(lnk, oas_decimal)

\* The value an engine's price() hands back: [raised, val], val the tuple.
Returned(t) == [raised |-> FALSE, val |-> t]
Raises == [raised |-> TRUE, val |-> << >>]

CacheOrNew(state_cache, fresh) == IF state_cache = None THEN fresh ELSE state_cache

HullWhiteLSMCEngine_return(state_cache, fresh, env) ==
    IF env.fault THEN Raises
    ELSE Returned(<<env.dirty, 1, CacheOrNew(state_cache, fresh)>>)

CIRPDEEngine_return(state_cache, fresh, env) ==
    IF env.fault THEN Raises
    ELSE Returned(<<env.dirty, CacheOrNew(state_cache, fresh)>>)

TreeEngine_return(c, state_cache, fresh, env) ==
    IF env.fault \/ (state_cache = None /\ c.bk_steps_year = NoAttr) THEN Raises
    ELSE Returned(<<env.dirty, CacheOrNew(state_cache, fresh)>>)

\* "dirty, sc = <engine>.price(...)"; "return float(dirty - accrued), sc"
UnpackPair(r, acc) ==
    IF r.raised \/ Len(r.val) # 2
    THEN [raised |-> TRUE, clean |-> 0, cache |-> None]
    ELSE [raised |-> FALSE, clean |-> r.val[1] - acc, cache |-> r.val[2]]

EngineReturn(c, method, state_cache, fresh, env) ==
    CASE method = "HW_LSMC" -> HullWhiteLSMCEngine_return(state_cache, fresh, env)
      [] method = "CIR_PDE" -> CIRPDEEngine_return(state_cache, fresh, env)
      [] method = "KWF_MANUAL" -> TreeEngine_return(c, state_cache, fresh, env)

\* (mutant) a key that no branch takes is an error
NoBranchRaises(base) ==
    base @@ [engine |-> "none", raised |-> TRUE, clean |-> 0, dirty |-> 0,
             cache |-> None]

\* pricer.py 108-109 and 113: "return 0.0, None" for a key no branch takes
NoBranch(base) ==
    base @@ [engine |-> "none", raised |-> FALSE, clean |-> 0, dirty |-> 0,
             cache |-> None]

\* One calculate call on the link lnk.  The record says what came back and,
\* for the call log, which curve the engine saw and what the engine did.
calculate(c, lnk, method, oas_decimal, state_cache, fresh, acc, env) ==
    LET ts_use == make_ts_with_oas(lnk, oas_decimal)
        base == [curve |-> ts_use, method |-> method, cacheIn |-> state_cache,
                 fault |-> env.fault,
                 \* for the call log: the link of ts_base during the call
                 link |-> lnk, oas |-> oas_decimal]
    IN  CASE method = "STRAIGHT BOND" ->
               base @@ [engine |-> "none", raised |-> env.fault,
                        clean |-> IF env.fault THEN 0 ELSE env.dirty - acc,
                        dirty |-> env.dirty, cache |-> None]
          [] method \in ManualKeys ->
               LET r == EngineReturn(c, method, state_cache, fresh, env)
                   u == UnpackPair(r, acc)
               IN  base @@ [engine |-> IF r.raised THEN "raised" ELSE "returned",
                            raised |-> u.raised, clean |-> u.clean,
                            dirty |-> env.dirty,
                            cache |-> IF r.raised THEN None
                                      ELSE r.val[Len(r.val)]]
          [] method = "HW_QL_TREE" ->
               base @@ [engine |-> "none", raised |-> FALSE,
                        clean |-> IF env.fault THEN 0 ELSE env.dirty - acc,
                        dirty |-> env.dirty, cache |-> None]
          [] OTHER -> NoBranch(base)

-----------------------------------------------------------------------------
(* The callers: MasterPricer.metrics and sensitivity.price_vs_rate_shift *)

NoOp == [kind |-> "none", method |-> "", oas |-> 0, cache |-> None,
         scenarios |-> << >>, shifts |-> << >>]
NoPrices == [P0 |-> 0, Pup |-> 0, Pdn |-> 0]
NoRet == [raised |-> FALSE, price |-> 0, dur |-> <<0, 1>>, conv |-> <<0, 1>>]

\* Sequential use: nobody else is inside an operation on the pricer.
Alone(p) == \A q \in Procs \ {p} : pc[q] = "idle"

\* "dy = float(getattr(self.cfg, 'risk_bump_bps', self.cfg.bump_bps)) / 10000.0"
dy == cfg.risk_bump_bps

\* (mutant) the zero-price return is missing
PriceTooSmallNever(P0) == FALSE

\* "if P0 <= 1e-8": prices here are whole units, the smallest positive is 1
PriceTooSmall(P0) == P0 <= 0

\* "if abs(dy) < 1e-12"
BumpIsZero == dy = 0

\* (mutant) the duration quotient with the two bumped prices swapped
EffectiveDurationSwapped(P0, Pup, Pdn) == <<Pup - Pdn, 2 * P0 * dy>>

\* "dur = (Pdn - Pup) / (2.0 * P0 * dy)" as <<numerator, denominator>>, the
\* denominator in units of 1/10000 because dy is kept in basis points
EffectiveDuration(P0, Pup, Pdn) == <<Pdn - Pup, 2 * P0 * dy>>

\* "conv = (Pup + Pdn - 2.0 * P0) / (P0 * (dy ** 2))" as <<numerator,
\* denominator>>, the denominator in units of 1/10000^2
EffectiveConvexity(P0, Pup, Pdn) == <<Pup + Pdn - 2 * P0, P0 * dy * dy>>

\* (mutant) the bumped calls are handed metrics' own state_cache argument
BumpedCacheArgOriginal(p) == op[p].cache

\* The cache argument of the two bumped calculate calls in metrics.
BumpedCacheArg(p) == state[p]

\* (mutant) the relink back is done after the try block, not in a finally
FinallyLinkNoFinally(p) == IF exc[p] THEN ts_base ELSE base_ptr[p]

\* The curve the finally block links ts_base back to.
FinallyLink(p) == base_ptr[p]

\* (mutant) the spread is put on the curve ts_base is linked to
SpreadedOnCurrentLink(ptr, spread) == Append(ts_base, spread)

\* ZeroSpreadedTermStructure(YieldTermStructureHandle(base_ptr), spread)
Spreaded(ptr, spread) == Append(ptr, spread)

Log(p, phase, r) == calls' = [calls EXCEPT ![p] = Append(@, r @@ [phase |-> phase])]

MetricsCall(p) ==
    /\ pc[p] = "idle"
    /\ Len(ts_base) + 1 <= MaxCurveDepth
    /\ \E m \in Methods, o \in OasChoices, sc \in {None, ExtCache} :
          op' = [op EXCEPT ![p] = [NoOp EXCEPT !.kind = "metrics", !.method = m,
                                               !.oas = o, !.cache = sc]]
    /\ pc' = [pc EXCEPT ![p] = "m_base"]
    /\ entry' = [entry EXCEPT ![p] = ts_base]
    /\ calls' = [calls EXCEPT ![p] = << >>]
    /\ UNCHANGED <<ts_base, cfg, accrued, base_ptr, state, prices, exc, ret>>

\* pricer.py 132-143: the base call and the two degenerate returns.
MetricsBase(p) ==
    /\ pc[p] = "m_base"
    /\ \E env \in Envs :
         LET r == calculate(cfg, ts_base, op[p].method, op[p].oas, op[p].cache,
                            Fresh(p, 1), accrued, env)
         IN  /\ Log(p, "base", r)
             /\ IF r.raised
                THEN /\ ret' = [ret EXCEPT ![p] = [NoRet EXCEPT !.raised = TRUE]]
                     /\ pc' = [pc EXCEPT ![p] = "done"]
                     /\ UNCHANGED <<state, prices>>
                ELSE /\ state' = [state EXCEPT ![p] = r.cache]
                     /\ prices' = [prices EXCEPT ![p] = [NoPrices EXCEPT !.P0 = r.clean]]
                     /\ IF PriceTooSmall(r.clean)
                        THEN /\ ret' = [ret EXCEPT ![p] = NoRet]
                             /\ pc' = [pc EXCEPT ![p] = "done"]
                        ELSE IF BumpIsZero
                        THEN /\ ret' = [ret EXCEPT ![p] = [NoRet EXCEPT !.price = r.clean]]
                             /\ pc' = [pc EXCEPT ![p] = "done"]
                        ELSE /\ pc' = [pc EXCEPT ![p] = "m_capture"]
                             /\ UNCHANGED ret
    /\ UNCHANGED <<ts_base, cfg, accrued, op, base_ptr, exc, entry>>

\* pricer.py 145
MetricsCapture(p) ==
    /\ pc[p] = "m_capture"
    /\ base_ptr' = [base_ptr EXCEPT ![p] = ts_base]
    /\ pc' = [pc EXCEPT ![p] = "m_link_up"]
    /\ UNCHANGED <<ts_base, cfg, accrued, op, state, prices, exc, entry, calls, ret>>

\* pricer.py 147-152 and 155-160
MetricsLink(p) ==
    /\ pc[p] \in {"m_link_up", "m_link_dn"}
    /\ ts_base' = Spreaded(base_ptr[p], IF pc[p] = "m_link_up" THEN dy ELSE -dy)
    /\ pc' = [pc EXCEPT ![p] = IF pc[p] = "m_link_up" THEN "m_up" ELSE "m_dn"]
    /\ UNCHANGED <<cfg, accrued, op, base_ptr, state, prices, exc, entry, calls, ret>>

\* pricer.py 153 and 161
MetricsBumped(p) ==
    /\ pc[p] \in {"m_up", "m_dn"}
    /\ \E env \in Envs :
         LET up == pc[p] = "m_up"
             r == calculate(cfg, ts_base, op[p].method, op[p].oas, BumpedCacheArg(p),
                            Fresh(p, IF up THEN 2 ELSE 3), accrued, env)
         IN  /\ Log(p, IF up THEN "up" ELSE "dn", r)
             /\ IF r.raised
                THEN /\ exc' = [exc EXCEPT ![p] = TRUE]
                     /\ pc' = [pc EXCEPT ![p] = "m_finally"]
                     /\ UNCHANGED prices
                ELSE /\ prices' = [prices EXCEPT ![p] =
                                     IF up THEN [@ EXCEPT !.Pup = r.clean]
                                     ELSE [@ EXCEPT !.Pdn = r.clean]]
                     /\ pc' = [pc EXCEPT ![p] = IF up THEN "m_link_dn" ELSE "m_finally"]
                     /\ UNCHANGED exc
    /\ UNCHANGED <<ts_base, cfg, accrued, op, base_ptr, state, entry, ret>>

\* pricer.py 162-170: the finally block, then the two quotients or the
\* exception going on to the caller.
MetricsFinally(p) ==
    /\ pc[p] = "m_finally"
    /\ ts_base' = FinallyLink(p)
    /\ ret' = [ret EXCEPT ![p] =
                 IF exc[p] THEN [NoRet EXCEPT !.raised = TRUE]
                 ELSE [raised |-> FALSE, price |-> prices[p].P0,
                       dur |-> EffectiveDuration(prices[p].P0, prices[p].Pup,
                                                 prices[p].Pdn),
                       conv |-> EffectiveConvexity(prices[p].P0, prices[p].Pup,
                                                   prices[p].Pdn)]]
    /\ pc' = [pc EXCEPT ![p] = "done"]
    /\ UNCHANGED <<cfg, accrued, op, base_ptr, state, prices, exc, entry, calls>>

\* sensitivity.py 61-62: base_ptr is read before the try block.
ShiftCall(p) ==
    /\ pc[p] = "idle"
    /\ Len(ts_base) + 1 <= MaxCurveDepth
    /\ \E sl \in ScenarioLists, sh \in ShiftLists, o \in OasChoices :
          op' = [op EXCEPT ![p] = [NoOp EXCEPT !.kind = "shift", !.scenarios = sl,
                                               !.shifts = sh, !.oas = o]]
    /\ base_ptr' = [base_ptr EXCEPT ![p] = ts_base]
    /\ entry' = [entry EXCEPT ![p] = ts_base]
    /\ calls' = [calls EXCEPT ![p] = << >>]
    /\ prices' = [prices EXCEPT ![p] = [NoPrices EXCEPT !.P0 = 1]]
    /\ pc' = [pc EXCEPT ![p] = "s_link"]
    /\ UNCHANGED <<ts_base, cfg, accrued, state, exc, ret>>

\* In the sweep prices[p].P0 is the index of the shift in hand and
\* prices[p].Pup the number of scenarios already priced under it.
ShiftIdx(p) == prices[p].P0
ScenDone(p) == prices[p].Pup

\* sensitivity.py 64-72: the next shift is linked, or the loop is over.
ShiftLink(p) ==
    /\ pc[p] = "s_link"
    /\ IF ShiftIdx(p) > Len(op[p].shifts)
       THEN /\ pc' = [pc EXCEPT ![p] = "s_finally"]
            /\ UNCHANGED ts_base
       ELSE /\ ts_base' = Spreaded(base_ptr[p], op[p].shifts[ShiftIdx(p)])
            /\ pc' = [pc EXCEPT ![p] = "s_calc"]
    /\ UNCHANGED <<cfg, accrued, op, base_ptr, state, prices, exc, entry, calls, ret>>

\* sensitivity.py 75-78: one scenario priced with state_cache=None.
ShiftCalc(p) ==
    /\ pc[p] = "s_calc"
    /\ IF ScenDone(p) >= Len(op[p].scenarios)
       THEN /\ prices' = [prices EXCEPT ![p] = [@ EXCEPT !.P0 = @ + 1, !.Pup = 0]]
            /\ pc' = [pc EXCEPT ![p] = "s_link"]
            /\ UNCHANGED <<calls, exc>>
       ELSE \E env \in Envs :
              LET r == calculate(cfg, ts_base, op[p].scenarios[ScenDone(p) + 1],
                                 op[p].oas, None, Fresh(p, Len(calls[p]) + 1),
                                 accrued, env)
              IN  /\ Log(p, "shift", r)
                  /\ IF r.raised
                     THEN /\ exc' = [exc EXCEPT ![p] = TRUE]
                          /\ pc' = [pc EXCEPT ![p] = "s_finally"]
                          /\ UNCHANGED prices
                     ELSE /\ prices' = [prices EXCEPT ![p] = [@ EXCEPT !.Pup = @ + 1]]
                          /\ UNCHANGED <<pc, exc>>
    /\ UNCHANGED <<ts_base, cfg, accrued, op, base_ptr, state, entry, ret>>

\* sensitivity.py 79-82
ShiftFinally(p) ==
    /\ pc[p] = "s_finally"
    /\ ts_base' = FinallyLink(p)
    /\ ret' = [ret EXCEPT ![p] = [NoRet EXCEPT !.raised = exc[p]]]
    /\ pc' = [pc EXCEPT ![p] = "done"]
    /\ UNCHANGED <<cfg, accrued, op, base_ptr, state, prices, exc, entry, calls>>

\* The caller has the result (or the exception) and drops the locals.
Return(p) ==
    /\ pc[p] = "done"
    /\ pc' = [pc EXCEPT ![p] = "idle"]
    /\ op' = [op EXCEPT ![p] = NoOp]
    /\ base_ptr' = [base_ptr EXCEPT ![p] = << >>]
    /\ state' = [state EXCEPT ![p] = None]
    /\ prices' = [prices EXCEPT ![p] = NoPrices]
    /\ exc' = [exc EXCEPT ![p] = FALSE]
    /\ entry' = [entry EXCEPT ![p] = << >>]
    /\ calls' = [calls EXCEPT ![p] = << >>]
    /\ ret' = [ret EXCEPT ![p] = NoRet]
    /\ UNCHANGED <<ts_base, cfg, accrued>>

OrchInit ==
    /\ ts_base \in {<< >>, <<25>>}
    /\ cfg \in [risk_bump_bps : BumpChoices, bk_steps_year : {NoAttr, 52}]
    /\ accrued \in AccruedChoices
    /\ pc = [p \in Procs |-> "idle"]
    /\ op = [p \in Procs |-> NoOp]
    /\ base_ptr = [p \in Procs |-> << >>]
    /\ state = [p \in Procs |-> None]
    /\ prices = [p \in Procs |-> NoPrices]
    /\ exc = [p \in Procs |-> FALSE]
    /\ entry = [p \in Procs |-> << >>]
    /\ calls = [p \in Procs |-> << >>]
    /\ ret = [p \in Procs |-> NoRet]

\* One caller at a time (the pricer is used single-threaded).
OrchStep(p) ==
    \/ Alone(p) /\ MetricsCall(p)
    \/ Alone(p) /\ ShiftCall(p)
    \/ MetricsBase(p)
    \/ MetricsCapture(p)
    \/ MetricsLink(p)
    \/ MetricsBumped(p)
    \/ MetricsFinally(p)
    \/ ShiftLink(p)
    \/ ShiftCalc(p)
    \/ ShiftFinally(p)
    \/ Return(p)

-----------------------------------------------------------------------------
(* Claims about the orchestrator, checked under Spec *)

Abs(x) == IF x < 0 THEN -x ELSE x

\* C1. When metrics or price_vs_rate_shift is left - by a normal return, a
\* degenerate early return, or an exception out of the base, up, down or
\* shifted repricing - ts_base is linked to the curve it was linked to when
\* the operation was entered.
C1_LinkRestoredAtExit ==
    \A p \in Procs : pc[p] = "done" => ts_base = entry[p]

\* C1 witness: metrics left by an exception of the down-bumped repricing,
\* after the handle had been relinked twice.
C1_ExitByExceptionAfterRelink ==
    \E p \in Procs :
        /\ pc[p] = "done" /\ op[p].kind = "metrics" /\ ret[p].raised
        /\ Len(calls[p]) = 3 /\ calls[p][3].phase = "dn" /\ calls[p][3].raised

\* C2 (as claimed). Every calculate call on a manual-engine key whose engine
\* returned comes back without raising, with the engine's dirty price minus
\* the accrued amount - whatever the shape of the engine's return value.
C2_ManualKeysReturnCleanAndCache ==
    \A p \in Procs : \A i \in 1..Len(calls[p]) :
        LET c == calls[p][i] IN
        (c.method \in ManualKeys /\ c.engine = "returned")
            => (~c.raised /\ c.clean = c.dirty - accrued)

\* C3 (as claimed). metrics on each key of the smoke test, the numerics not
\* failing, returns without raising and price, duration and convexity are
\* below 1e6 in absolute value (dy is in bps, so duration is
\* 1e4*num/den and convexity 1e8*num/den).
C3_SmokeKeysReturnFiniteTriple ==
    \A p \in Procs :
        (/\ pc[p] = "done" /\ op[p].kind = "metrics"
         /\ op[p].method \in SmokeKeys
         /\ \A i \in 1..Len(calls[p]) : ~calls[p][i].fault)
        => /\ ~ret[p].raised
           /\ Abs(ret[p].price) < 1000000
           /\ Abs(ret[p].dur[1]) < 100 * Abs(ret[p].dur[2])
           /\ 100 * Abs(ret[p].conv[1]) < Abs(ret[p].conv[2])
              \/ ret[p].conv[1] = 0

\* C4. In metrics the base calculate call is the first call, and the up and
\* the down call are each handed the very cache the base call returned.
C4_BumpedCallsGetBaseCache ==
    \A p \in Procs : op[p].kind = "metrics" =>
        \A i \in 1..Len(calls[p]) :
            /\ (calls[p][i].phase = "base") <=> (i = 1)
            /\ calls[p][i].phase \in {"up", "dn"}
                 => calls[p][i].cacheIn = calls[p][1].cache

\* C4 witness: a metrics call with no cache given whose base call created a
\* cache and whose up and down calls have both been made.
C4_ThreeCallsOnFreshCache ==
    \E p \in Procs :
        /\ op[p].kind = "metrics" /\ op[p].cache = None /\ Len(calls[p]) = 3
        /\ calls[p][1].cache = Fresh(p, 1)
        /\ calls[p][2].phase = "up" /\ calls[p][3].phase = "dn"

\* a metrics call of p has returned without raising
MetricsReturned(p) ==
    pc[p] = "done" /\ op[p].kind = "metrics" /\ ~ret[p].raised

\* C12. metrics never divides by a zero price or a zero bump: when the base
\* price is at most 1e-8 it returns (0, 0, 0), when the bump is zero it
\* returns (P0, 0, 0), in both cases after the base call alone; every quotient
\* it does form has a non-zero denominator; and no step up to such an early
\* return relinks the curve handle.
C12_NoDivisionByZeroInMetrics ==
    /\ [](\A p \in Procs : MetricsReturned(p) =>
            LET P0 == calls[p][1].clean
            IN  /\ P0 <= 0 => ret[p] = NoRet /\ Len(calls[p]) = 1
                /\ (P0 > 0 /\ cfg.risk_bump_bps = 0) =>
                       ret[p] = [NoRet EXCEPT !.price = P0] /\ Len(calls[p]) = 1
                /\ ret[p].dur[2] # 0 /\ ret[p].conv[2] # 0)
    /\ [][\A p \in Procs : pc[p] = "m_base" => ts_base' = ts_base]_vars

\* C12 witness: a metrics call on a key that no branch of calculate prices
\* (base price 0) has returned, with a non-zero bump configured.
C12_ZeroPriceEarlyReturn ==
    \E p \in Procs :
        /\ MetricsReturned(p) /\ calls[p][1].clean = 0
        /\ cfg.risk_bump_bps # 0 /\ ret[p] = NoRet

\* C13. When P0 > 1e-8 and the bump is non-zero, metrics makes three
\* calculate calls with the same method and OAS - on the curve of entry, on
\* it raised by dy and on it lowered by dy - and returns P0 of the first with
\* (P_down - P_up) / (2 P0 dy) and (P_up + P_down - 2 P0) / (P0 dy^2).
C13_DurationConvexityFormulas ==
    \A p \in Procs :
        (MetricsReturned(p) /\ calls[p][1].clean > 0 /\ cfg.risk_bump_bps # 0) =>
            LET P0 == calls[p][1].clean
                Pup == calls[p][2].clean
                Pdn == calls[p][3].clean
                d == cfg.risk_bump_bps
                curve(sp) == make_ts_with_oas(Spreaded(entry[p], sp), op[p].oas)
            IN  /\ Len(calls[p]) = 3
                /\ \A i \in 1..3 : calls[p][i].method = op[p].method
                /\ calls[p][1].curve = make_ts_with_oas(entry[p], op[p].oas)
                /\ calls[p][2].curve = curve(d)
                /\ calls[p][3].curve = curve(-d)
                /\ ret[p].price = P0
                /\ ret[p].dur = <<Pdn - Pup, 2 * P0 * d>>
                /\ ret[p].conv = <<Pup + Pdn - 2 * P0, P0 * d * d>>

\* C13 witness: metrics has returned with an OAS applied, the up price below
\* and the down price above the base price.
C13_BumpedPricesAroundBase ==
    \E p \in Procs :
        /\ MetricsReturned(p) /\ Len(calls[p]) = 3 /\ op[p].oas # 0
        /\ calls[p][2].clean < calls[p][1].clean
        /\ calls[p][3].clean > calls[p][1].clean
        /\ ret[p].dur[1] > 0

\* C25. The curve every calculate call prices on is the link ts_base has
\* during the call, itself when the OAS is zero and with the OAS on top of it
\* otherwise.  In the base call of metrics that link is the curve of entry,
\* in the up and down calls the curve of entry raised and lowered by dy, in a
\* call of price_vs_rate_shift the curve of entry moved by one of the shifts.
C25_EngineSeesCurrentLinkPlusOas ==
    \A p \in Procs : \A i \in 1..Len(calls[p]) :
        LET c == calls[p][i] IN
        /\ c.oas = op[p].oas
        /\ c.curve = (IF c.oas = 0 THEN c.link ELSE c.link \o <<c.oas>>)
        /\ c.phase = "base" => c.link = entry[p]
        /\ c.phase = "up" => c.link = entry[p] \o <<cfg.risk_bump_bps>>
        /\ c.phase = "dn" => c.link = entry[p] \o <<-cfg.risk_bump_bps>>
        /\ c.phase = "shift" =>
              \E k \in 1..Len(op[p].shifts) :
                  c.link = entry[p] \o <<op[p].shifts[k]>>

\* C25 witness: an engine has priced the down call of metrics on the lowered
\* curve with a non-zero OAS on top of it.
C25_EngineCalledOnBumpedCurve ==
    \E p \in Procs :
        /\ Len(calls[p]) = 3 /\ calls[p][3].phase = "dn"
        /\ calls[p][3].engine = "returned" /\ op[p].oas # 0
        /\ calls[p][3].curve = entry[p] \o <<-cfg.risk_bump_bps, op[p].oas>>
        /\ calls[p][3].curve # calls[p][1].curve

\* C28. Every curve an operation links ts_base to is the curve of entry
\* with one spread on it: while metrics waits for its up call the curve of
\* entry plus dy, while it waits for its down call the curve of entry minus
\* dy and not the raised curve lowered again, and in price_vs_rate_shift the
\* curve of entry plus the shift in hand, whatever shifts came before it.
C28_BumpsBuiltOnEntryLink ==
    \A p \in Procs :
        /\ pc[p] \in {"m_link_up", "m_up", "m_link_dn", "m_dn", "m_finally",
                      "s_link", "s_calc", "s_finally"}
              => base_ptr[p] = entry[p]
        /\ pc[p] = "m_up" => ts_base = entry[p] \o <<cfg.risk_bump_bps>>
        /\ pc[p] = "m_dn" => ts_base = entry[p] \o <<-cfg.risk_bump_bps>>
        /\ pc[p] = "s_calc" =>
              ts_base = entry[p] \o <<op[p].shifts[ShiftIdx(p)]>>

\* C28 witness: the sweep has linked its second shift, the first one having
\* been priced on another curve.
C28_SecondShiftLinked ==
    \E p \in Procs :
        /\ pc[p] = "s_calc" /\ ShiftIdx(p) = 2
        /\ op[p].shifts[1] # op[p].shifts[2]
        /\ Len(calls[p]) >= 1
        /\ calls[p][1].link = entry[p] \o <<op[p].shifts[1]>>
        /\ ts_base = entry[p] \o <<op[p].shifts[2]>>

\* the keys no branch of calculate prices
UnknownKeys == Methods \ (ManualKeys \cup {"STRAIGHT BOND", "HW_QL_TREE"})

\* C29. A calculate call on a key that matches no engine returns (0.0, None)
\* without raising and without running an engine; metrics on such a key makes
\* that one call, never relinks ts_base and returns (0, 0, 0); and the only
\* keys on which a manual engine runs are the three manual keys.
C29_UnknownKeyPricesZero ==
    \A p \in Procs :
        /\ \A i \in 1..Len(calls[p]) :
              LET c == calls[p][i] IN
              /\ c.method \in UnknownKeys =>
                    /\ ~c.raised /\ c.clean = 0 /\ c.cache = None
                    /\ c.engine = "none"
              /\ c.engine \in {"returned", "raised"} => c.method \in ManualKeys
        /\ (op[p].kind = "metrics" /\ op[p].method \in UnknownKeys) =>
              /\ pc[p] \in {"m_base", "done"}
              /\ ts_base = entry[p]
              /\ pc[p] = "done" => ret[p] = NoRet /\ Len(calls[p]) = 1

\* C29 witness: a sweep has priced the key BK_MANUAL, which no branch takes,
\* as zero although the numerics were about to fail, and has then run the PDE
\* engine on the next scenario.
C29_UnknownKeyInSweep ==
    \E p \in Procs :
        /\ op[p].kind = "shift" /\ Len(calls[p]) >= 2
        /\ calls[p][1].method = "BK_MANUAL" /\ calls[p][1].fault
        /\ ~calls[p][1].raised /\ calls[p][1].clean = 0
        /\ calls[p][2].method = "CIR_PDE" /\ calls[p][2].engine = "returned"

-----------------------------------------------------------------------------
(* Two callers inside operations on the same pricer at the same time *)

\* the two callers whose operations overlap
ConcCallers == {p \in Procs : p <= 2}

\* the curve ts_base is linked to before either operation is entered
OriginalCurve == << >>

\* every engine run of caller p has produced the same dirty price
ConcEnv(p) == \A i \in 1..Len(calls'[p]) : calls'[p][i].dirty = 100

\* Each of the two callers enters one operation, metrics on the PDE key or a
\* sweep of one shift over one scenario, at any moment; the steps of the two
\* operations interleave freely, a calculate call being one step.  The
\* numerics may fail in any call and give one price when they do not.
ConcStep(p) ==
    \/ /\ MetricsCall(p)
       /\ op'[p].method = "CIR_PDE" /\ op'[p].oas = 0 /\ op'[p].cache = None
    \/ /\ ShiftCall(p)
       /\ op'[p].scenarios = <<"STRAIGHT BOND">> /\ op'[p].shifts = <<100>>
       /\ op'[p].oas = 0
    \/ MetricsBase(p) /\ ConcEnv(p)
    \/ MetricsCapture(p)
    \/ MetricsLink(p)
    \/ MetricsBumped(p) /\ ConcEnv(p)
    \/ MetricsFinally(p)
    \/ ShiftLink(p)
    \/ ShiftCalc(p) /\ ConcEnv(p)
    \/ ShiftFinally(p)

ConcInit ==
    /\ OrchInit
    /\ ts_base = OriginalCurve
    /\ cfg = [risk_bump_bps |-> 10, bk_steps_year |-> NoAttr]
    /\ accrued = 0

\* C27 (as claimed). Once two interleaved operations on the same pricer,
\* two metrics calls or a metrics call and a price_vs_rate_shift call, have
\* both completed, ts_base is linked to the original curve, and the base
\* price of every metrics call was computed on the original curve.
C27_InterleavedCallsLeaveOriginalCurve ==
    (\A p \in ConcCallers : pc[p] = "done") =>
        /\ ts_base = OriginalCurve
        /\ \A p \in ConcCallers :
              op[p].kind = "metrics" => calls[p][1].curve = OriginalCurve

-----------------------------------------------------------------------------
(* Fixed-point arithmetic standing for the engines' floats *)

FP == 10000     \* units per 1.0: a basis point is one unit
TPY == 4        \* time ticks per year: a year fraction is ticks / TPY

\* n / d rounded to the nearest integer (d > 0)
RoundDiv(n, d) ==
    IF n >= 0 THEN (2 * n + d) \div (2 * d) ELSE -((2 * (-n) + d) \div (2 * d))

MulFP(a, b) == RoundDiv(a * b, FP)
DivFP(a, b) == IF b > 0 THEN RoundDiv(a * FP, b) ELSE -RoundDiv(a * FP, -b)

\* np.exp: the power series, summed until the terms vanish
RECURSIVE ExpSeries(_, _, _)
ExpSeries(x, term, n) ==
    IF term = 0 \/ n > 12 THEN 0
    ELSE term + ExpSeries(x, RoundDiv(term * x, FP * n), n + 1)

ExpFP(x) == ExpSeries(x, FP, 1)

\* np.sqrt: the integer square root of the scaled argument
RECURSIVE ISqrtBetween(_, _, _)
ISqrtBetween(n, lo, hi) ==
    IF lo >= hi THEN lo
    ELSE LET mid == (lo + hi + 1) \div 2
         IN  IF mid * mid <= n THEN ISqrtBetween(n, mid, hi)
             ELSE ISqrtBetween(n, lo, mid - 1)

SqrtFP(x) == ISqrtBetween(x * FP, 0, 40000)

\* Python's round(n / d) for n >= 0, d > 0: ties go to the even integer
RoundHalfEven(n, d) ==
    LET q == n \div d
        r == n % d
    IN  IF 2 * r < d THEN q
        ELSE IF 2 * r > d THEN q + 1
        ELSE IF q % 2 = 0 THEN q ELSE q + 1

RECURSIVE SumSeq(_)
SumSeq(sq) == IF sq = << >> THEN 0 ELSE Head(sq) + SumSeq(Tail(sq))

Min(x, y) == IF x <= y THEN x ELSE y
Max(x, y) == IF x >= y THEN x ELSE y

-----------------------------------------------------------------------------
(* Curve and bond data as the engines read them *)

\* A curve seen by an engine is flat at a continuously compounded level
\* (bps): the base level with the parallel spreads added.
Discount(level, ticks) == ExpFP(-RoundDiv(level * ticks, TPY))
ForwardRate(level, tFP) == level

\* ql.Schedule, backward from maturity, the dates after today (tick 0)
CouponTimes(b) == {t \in 1..b.T : (b.T - t) % b.period = 0}

\* coupon = face * coupon_rate / payments_per_year
CouponAmt(b) == RoundDiv(MulFP(b.face, b.coupon_rate) * b.period, TPY)

\* the straight discounted-cashflow value of the bond on a curve
StraightPV(level, b) ==
    LET ts == CouponTimes(b)
        pv[S \in SUBSET ts] ==
            IF S = {} THEN 0
            ELSE LET t == CHOOSE u \in S : TRUE
                 IN  MulFP(CouponAmt(b) + (IF t = b.T THEN b.face ELSE 0),
                           Discount(level, t)) + pv[S \ {t}]
    IN  pv[ts]

-----------------------------------------------------------------------------
(* Hull-White LSMC engine: HullWhiteLSMCEngine.price *)

NpRandomStates == 2     \* distinct states of the process-wide numpy generator

CurveLevels == {300, 400, 500}       \* base - dy, base, base + dy
CallSchedules == {<< >>, <<<<2, 10000>>>>, <<<<2, 10000>>, <<3, 9900>>>>}
\* two call dates in the first half year, the later one on a coupon date
EarlyCalls == <<<<1, 10100>>, <<2, 10000>>>>

\* svd_converges: whether np.linalg.lstsq succeeds on the session's inputs
\* (it raises LinAlgError when its SVD does not converge)
McSessions ==
    [svd_converges : BOOLEAN,
     cfg : [mc_paths : {2, 3}, mc_steps_year : {2}, mc_seed : {1, 2}],
     params : [a : {0, 1000}, sigma : {200}],
     bond : [T : {4, 6}, period : {2}, face : {FP}, coupon_rate : {400},
             call_schedule : CallSchedules \cup {EarlyCalls}]]

EmptyMap == << >>
ZerosBetas == [zero |-> TRUE, fit |-> EmptyMap]

\* "N = int(T * mc_steps_year); if N <= 1: N = 2; dt = T / N"
McN(b, c) ==
    LET n == (b.T * c.mc_steps_year) \div TPY IN IF n <= 1 THEN 2 ELSE n

McDt(b, n) == RoundDiv(b.T * FP, TPY * n)

\* np.random.RandomState(seed): the k-th number of the stream of a seed
RECURSIVE Stream(_, _)
Stream(seed, k) ==
    IF k = 0 THEN (7 * seed + 1) % 31 ELSE (3 * Stream(seed, k - 1) + 5) % 31

\* .normal(0.0, 1.0, ...): one draw, in fixed point
Normal(seed, k) == ((Stream(seed, k) % 3) - 1) * FP

\* .normal(0.0, 1.0, (paths, N)) fills the matrix row by row
DrawMatrix(seed, paths, n) ==
    [p \in 1..paths |-> [i \in 1..n |-> Normal(seed, (p - 1) * n + (i - 1))]]

\* (mutant) the draws come from the process-wide generator np.random
SeedOfStreamGlobal == 3 + np_random

\* The generator the engine draws from: RandomState(int(cfg.mc_seed))
SeedOfStream == mcIn.cfg.mc_seed

NewMcCache(n) ==
    [exists |-> TRUE,
     rng |-> DrawMatrix(SeedOfStream, mcIn.cfg.mc_paths, n),
     regressions |-> EmptyMap,
     exercise_prob |-> EmptyMap]

\* (mutant) every call draws again, from np.random, and stores the matrix
SetupCacheRedraw(given, n) ==
    IF ~given THEN NewMcCache(n)
    ELSE [mcCache EXCEPT !.rng = DrawMatrix(3 + np_random, Len(mcCache.rng), n)]

\* (mutant) a cache-less call draws from np.random and so advances it
NpRandomAfterCallGlobal(given) ==
    IF given THEN np_random ELSE (np_random + 1) % NpRandomStates

\* hw_lsmc.py 64: the draws come from a RandomState of the call's own; the
\* process-wide generator is where it was
NpRandomAfterCall(given) == np_random

\* hw_lsmc.py 63-70: the dict the call works on
SetupCache(given, n) == IF ~given THEN NewMcCache(n) ELSE mcCache

\* hw_lsmc.py 78-84: one Euler step of the OU state (z a fixed-point draw)
OUStep(x, z, a, sigma, dt) ==
    LET shock == MulFP(MulFP(sigma, SqrtFP(dt)), z)
    IN  IF a = 0 THEN x + shock ELSE MulFP(x, FP - MulFP(a, dt)) + shock

\* X[p, 0..k] as a sequence: element j + 1 is X[p, j]
RECURSIVE XRow(_, _, _, _, _)
XRow(row, k, a, sigma, dt) ==
    IF k = 0 THEN <<0>>
    ELSE LET prev == XRow(row, k - 1, a, sigma, dt)
         IN  Append(prev, OUStep(prev[k], row[k], a, sigma, dt))

\* hw_lsmc.py 91-99: alpha[i] = forward(t_i) + Var[X(t_i)]
AlphaAt(i, n, b, level, a, sigma) ==
    LET tFP == RoundDiv(i * b.T * FP, n * TPY)
        var == IF a # 0
               THEN LET r == DivFP(sigma, a)
                        g == FP - ExpFP(-MulFP(a, tFP))
                    IN  MulFP(RoundDiv(MulFP(r, r), 2), MulFP(g, g))
               ELSE RoundDiv(MulFP(MulFP(sigma, sigma), MulFP(tFP, tFP)), 2)
    IN  ForwardRate(level, tFP) + var

\* hw_lsmc.py 137-145: call dates after today mapped to steps; a later entry
\* of the schedule overwrites an earlier one on the same step
McCallStep(tick, n, b) == Max(1, Min(RoundHalfEven(tick * n, b.T), n))

CallStepToPrice(b, n) ==
    LET cs == b.call_schedule
        live == {k \in 1..Len(cs) : cs[k][1] > 0}
        steps == {McCallStep(cs[k][1], n, b) : k \in live}
        last(st) == CHOOSE k \in live :
                        /\ McCallStep(cs[k][1], n, b) = st
                        /\ \A j \in live : McCallStep(cs[j][1], n, b) = st => j <= k
    IN  [st \in steps |-> cs[last(st)][2]]

\* (mutant) the interval of a step closed at both ends
InStepClosed(i, ct, n, b) == i * b.T <= ct * n /\ ct * n <= (i + 1) * b.T

\* "t < ct <= t_next" with t = i*T/N, in exact arithmetic
InStep(i, ct, n, b) == i * b.T < ct * n /\ ct * n <= (i + 1) * b.T

\* the cashflows added in step i, summed
StepCashflow(i, n, b) ==
    LET ts == {t \in CouponTimes(b) : InStep(i, t, n, b)}
    IN  Cardinality(ts) * CouponAmt(b) + (IF b.T \in ts THEN b.face ELSE 0)

RECURSIVE SumOver(_, _)
SumOver(G, V) ==
    IF G = {} THEN 0
    ELSE LET q == CHOOSE u \in G : TRUE IN V[q] + SumOver(G \ {q}, V)

\* np.linalg.lstsq on the basis [1, x, x^2].  With at most three distinct
\* regressor values the least-squares quadratic passes through the mean of V
\* over each group of paths that share a value; the coefficients are kept by
\* what they evaluate to on those values.
Lstsq(xs, V) ==
    [zero |-> FALSE,
     fit |-> [x \in {xs[q] : q \in DOMAIN xs} |->
                LET G == {q \in DOMAIN xs : xs[q] = x}
                IN  RoundDiv(SumOver(G, V), Cardinality(G))]]

\* hw_lsmc.py 175-179: the coefficients of a base run
BaseRunBetas(xs, V) == IF mcIn.svd_converges THEN Lstsq(xs, V) ELSE ZerosBetas

\* basis @ betas, for one path
ApplyBetas(betas, x) == IF betas.zero THEN 0 ELSE betas.fit[x]

\* (mutant) the regression is refitted on every call
IsBaseRunAlways(cache) == TRUE

\* "is_base_run = (len(state_cache.get('regressions', {})) == 0)"
IsBaseRun(cache) == DOMAIN cache.regressions = {}

WorkCache == IF mc.given THEN mcCache ELSE mc.fresh

\* "exercise = (cont_val - curr_amt) > strike", for one path
Exercise(cont_val, curr_amt, strike) == (cont_val - curr_amt) > strike

\* (mutant) a called path is reset to the strike alone
CalledValueStrikeOnly(strike, curr_amt) == strike

\* "np.where(exercise, strike + curr_amt, V)": the value of a called path
CalledValue(strike, curr_amt) == strike + curr_amt

NoDecision == [call |-> FALSE]

\* hw_lsmc.py 153-191: backward step i on the running values V
McStepResult(i, V, cache) ==
    LET b == mcIn.bond
        paths == DOMAIN V
        V1 == [p \in paths |->
                 MulFP(V[p], ExpFP(-MulFP(mc.X[p][i + 1] + mc.alpha[i + 1], mc.dt)))]
        curr_amt == StepCashflow(i, mc.N, b)
        V2 == [p \in paths |-> V1[p] + curr_amt]
        call_step == i + 1
    IN  IF call_step \notin DOMAIN mc.call_step_to_price
        THEN [V |-> V2, cache |-> cache, used |-> mc.used, exercise |-> << >>,
              decision |-> NoDecision]
        ELSE LET strike == mc.call_step_to_price[call_step]
                 xs == [p \in paths |-> mc.X[p][i + 2]]
                 betas == IF mc.is_base_run THEN BaseRunBetas(xs, V2)
                          ELSE IF i \in DOMAIN cache.regressions
                               THEN cache.regressions[i] ELSE ZerosBetas
                 cont_val == [p \in paths |-> ApplyBetas(betas, xs[p])]
                 exercise == [p \in paths |->
                                Exercise(cont_val[p], curr_amt, strike)]
                 cache1 == IF mc.is_base_run
                           THEN [cache EXCEPT
                                   !.regressions = (i :> betas) @@ @,
                                   !.exercise_prob = (call_step :>
                                       Cardinality({p \in paths : exercise[p]})) @@ @]
                           ELSE cache
             IN  [V |-> [p \in paths |->
                           IF exercise[p] THEN CalledValue(strike, curr_amt)
                           ELSE V2[p]],
                  cache |-> cache1,
                  used |-> (i :> betas) @@ mc.used,
                  exercise |-> exercise,
                  decision |-> [call |-> TRUE, cont_val |-> cont_val,
                                curr_amt |-> curr_amt, strike |-> strike,
                                exercise |-> exercise, before |-> V2]]

\* hw_lsmc.py 193-195: mean and standard error of the mean
McMean(V) == RoundDiv(SumSeq(V), Len(V))
McSem(V) ==
    LET m == McMean(V)
        sq == [p \in DOMAIN V |-> (V[p] - m) * (V[p] - m)]
        std == ISqrtBetween(RoundDiv(SumSeq(sq), Len(V)), 0, 4 * FP)
    IN  DivFP(std, SqrtFP(Len(V) * FP))

McIdle == [pc |-> "idle"]
Unbumped == CHOOSE l \in CurveLevels :
                Cardinality({m \in CurveLevels : m < l}) =
                Cardinality({m \in CurveLevels : m > l})
NoResult == [set |-> FALSE, price |-> 0, sem |-> 0, np_used |-> FALSE,
             between |-> FALSE, cache_level |-> 0]

\* hw_lsmc.py 38-151: a price call starts on a curve, given the session's
\* cache or none
McPriceCall(level, given) ==
    /\ mc.pc \in {"idle", "done"}
    /\ given => mcCache.exists
    /\ LET b == mcIn.bond
           n == McN(b, mcIn.cfg)
           dt == McDt(b, n)
           cache == SetupCache(given, n)
           rng == cache.rng
       IN  /\ mc' = [pc |-> "steps", level |-> level, given |-> given,
                     N |-> n, dt |-> dt, i |-> n - 1,
                     X |-> [p \in 1..Len(rng) |->
                              XRow(rng[p], n, mcIn.params.a, mcIn.params.sigma, dt)],
                     alpha |-> [k \in 1..(n + 1) |->
                                  AlphaAt(k - 1, n, b, level, mcIn.params.a,
                                          mcIn.params.sigma)],
                     call_step_to_price |-> CallStepToPrice(b, n),
                     V |-> [p \in 1..Len(rng) |-> 0],
                     is_base_run |-> IsBaseRun(cache),
                     fresh |-> IF given THEN [exists |-> FALSE] ELSE cache,
                     rng |-> rng, rng0 |-> IF given THEN mcCache.rng ELSE << >>,
                     regs0 |-> cache.regressions, used |-> EmptyMap,
                     price |-> 0, sem |-> 0, repeat |-> FALSE,
                     decision |-> NoDecision,
                     \* the steps in which each cashflow has been added
                     added |-> [t \in CouponTimes(b) |-> {}],
                     \* the exercise decisions made: <<call_step, strike>>
                     decided |-> {}]
           /\ mcCache' = IF given THEN cache ELSE mcCache
    /\ mcRef' = IF mcRef.set /\ (given \/ level # Unbumped)
                THEN [mcRef EXCEPT !.between = TRUE] ELSE mcRef
    /\ np_random' = NpRandomAfterCall(given)
    /\ UNCHANGED mcIn

McStep ==
    /\ mc.pc = "steps" /\ mc.i >= 0
    /\ LET r == McStepResult(mc.i, mc.V, WorkCache)
       IN  /\ mc' = [mc EXCEPT !.V = r.V, !.i = @ - 1, !.used = r.used,
                               !.decision = r.decision,
                               !.decided = IF r.decision.call
                                           THEN @ \cup {<<mc.i + 1,
                                                          r.decision.strike>>}
                                           ELSE @,
                               !.added = [t \in DOMAIN mc.added |->
                                   mc.added[t] \cup
                                   (IF InStep(mc.i, t, mc.N, mcIn.bond)
                                    THEN {mc.i} ELSE {})],
                               !.fresh = IF mc.given THEN @ ELSE r.cache]
           /\ mcCache' = IF mc.given THEN r.cache ELSE mcCache
    /\ UNCHANGED <<mcIn, mcRef, np_random>>

\* the return: the caller keeps the first cache it gets as the session's
McReturn ==
    /\ mc.pc = "steps" /\ mc.i < 0
    /\ LET price == McMean(mc.V)
           sem == McSem(mc.V)
           first == ~mc.given /\ mc.level = Unbumped /\ ~mcRef.set
           kept == ~mc.given /\ ~mcCache.exists
       IN  /\ mc' = [mc EXCEPT !.pc = "done", !.price = price, !.sem = sem,
                               !.repeat = ~mc.given /\ mc.level = Unbumped
                                          /\ mcRef.set]
           /\ mcRef' = [mcRef EXCEPT
                          !.set = @ \/ first,
                          !.price = IF first THEN price ELSE @,
                          !.sem = IF first THEN sem ELSE @,
                          !.cache_level = IF kept THEN mc.level ELSE @]
    /\ mcCache' = IF ~mc.given /\ ~mcCache.exists THEN mc.fresh ELSE mcCache
    /\ UNCHANGED <<mcIn, np_random>>

\* any other code drawing from, or reseeding, the process-wide generator
NpRandomUse ==
    /\ np_random' = (np_random + 1) % NpRandomStates
    /\ mcRef' = IF mcRef.set THEN [mcRef EXCEPT !.np_used = TRUE] ELSE mcRef
    /\ UNCHANGED <<mcIn, mcCache, mc>>

McInit ==
    /\ mcIn \in McSessions
    /\ mcCache = [exists |-> FALSE]
    /\ mc = McIdle
    /\ mcRef = NoResult
    /\ np_random = 0

McNext ==
    \/ \E level \in CurveLevels, given \in BOOLEAN : McPriceCall(level, given)
    \/ McStep
    \/ McReturn
    \/ NpRandomUse

-----------------------------------------------------------------------------
(* CIR PDE engine: CIRPDEEngine.price *)

PdeSessions ==
    [cfg : [pde_r_min : {0}, pde_r_max : {8000}, pde_grid_size : {5},
            pde_steps_year : {2, 4}, pde_shift_theta_with_curve : BOOLEAN],
     params : [theta : {500}, k : {1000}, sigma : {200, 1000}],
     bond : [T : {4, 6}, period : {2}, face : {FP}, coupon_rate : {400},
             call_schedule : CallSchedules]]

\* "r = np.linspace(pde_r_min, pde_r_max, pde_grid_size)"
PdeGrid(c) ==
    [j \in 1..c.pde_grid_size |->
        c.pde_r_min + RoundDiv((j - 1) * (c.pde_r_max - c.pde_r_min),
                               c.pde_grid_size - 1)]

\* "Nt = int(T * pde_steps_year); if Nt <= 2: Nt = 3; dt = T / Nt"
PdeNt(b, c) ==
    LET n == (b.T * c.pde_steps_year) \div TPY IN IF n <= 2 THEN 3 ELSE n

PdeDt(b, nt) == RoundDiv(b.T * FP, TPY * nt)

\* (mutant) r0_base is written on every call
PdeSetupCacheOverwrite(given, r0) == [exists |-> TRUE, r0_base |-> r0]

\* cir_pde.py 46-47: "if state_cache is None: state_cache = {'r0_base': r0}"
PdeSetupCache(given, r0) ==
    IF given THEN pdeCache ELSE [exists |-> TRUE, r0_base |-> r0]

\* cir_pde.py 44-53: theta of the call
PdeTheta(c, theta_base, r0, cache) ==
    IF c.pde_shift_theta_with_curve
    THEN theta_base + (r0 - cache.r0_base) ELSE theta_base

\* cir_pde.py 70-85: the Crank-Nicolson bands, per grid node
PdeBands(c, params, theta, dt) ==
    LET r == PdeGrid(c)
        n == Len(r)
        dr == r[2] - r[1]
        drift(j) == MulFP(params.k, theta - r[j])
        diff(j) == RoundDiv(MulFP(MulFP(params.sigma, params.sigma), r[j]), 2)
        dd(j) == DivFP(diff(j), MulFP(dr, dr))
        dc(j) == DivFP(drift(j), 2 * dr)
        A0(j) == -RoundDiv(MulFP(dt, dd(j) - dc(j)), 4)
        B0(j) == FP + RoundDiv(MulFP(dt, r[j] + dd(j)), 2)
        C0(j) == -RoundDiv(MulFP(dt, dd(j) + dc(j)), 4)
    IN  [A |-> [j \in 1..n |-> IF j = 1 THEN 0 ELSE A0(j)],
         B |-> [j \in 1..n |-> IF j = 1 THEN B0(1) + 2 * A0(1) ELSE B0(j)],
         C |-> [j \in 1..n |-> IF j = 1 THEN C0(1) - A0(1) ELSE C0(j)],
         R_sub |-> [j \in 1..n |-> RoundDiv(MulFP(dt, dd(j) - dc(j)), 4)],
         R_main |-> [j \in 1..n |-> FP - RoundDiv(MulFP(dt, r[j] + dd(j)), 2)],
         R_sup |-> [j \in 1..n |-> RoundDiv(MulFP(dt, dd(j) + dc(j)), 4)]]

\* "M_R @ V"
PdeRhs(bands, V) ==
    LET n == Len(V)
    IN  [j \in 1..n |->
            (IF j > 1 THEN MulFP(bands.R_sub[j], V[j - 1]) ELSE 0)
            + MulFP(bands.R_main[j], V[j])
            + (IF j < n THEN MulFP(bands.R_sup[j], V[j + 1]) ELSE 0)]

\* "solver.solve(...)": the tridiagonal system M_L v = d by elimination
PdeSolve(bands, d) ==
    LET n == Len(d)
        fwd[j \in 1..n] ==
            IF j = 1
            THEN [c |-> DivFP(bands.C[1], bands.B[1]),
                  d |-> DivFP(d[1], bands.B[1])]
            ELSE LET den == bands.B[j] - MulFP(bands.A[j], fwd[j - 1].c)
                 IN  [c |-> DivFP(bands.C[j], den),
                      d |-> DivFP(d[j] - MulFP(bands.A[j], fwd[j - 1].d), den)]
        back[j \in 1..n] ==
            IF j = n THEN fwd[n].d
            ELSE fwd[j].d - MulFP(fwd[j].c, back[j + 1])
    IN  [j \in 1..n |-> back[j]]

\* cfs: the coupon dates after today and before maturity
PdeCfs(b) == {t \in CouponTimes(b) : t < b.T}

\* call_events: the schedule entries after today, in schedule order
PdeCallEvents(b) ==
    SelectSeq(b.call_schedule, LAMBDA e : e[1] > 0)

\* "curr_t <= ct < prev_t" in the m-th step of Nt, in exact arithmetic
Crossed(m, nt, ct, b) ==
    (nt - m) * b.T <= ct * nt /\ ct * nt < (nt - m + 1) * b.T

\* cir_pde.py 148-152: the coupon taken as paid at a call time
PdeCpn(ct, nt, b) ==
    IF \E cft \in PdeCfs(b) : Abs(cft - ct) * nt < 2 * b.T
    THEN CouponAmt(b) ELSE 0

\* cir_pde.py 141-143: the coupon jumps of a step
PdeCoupons(V, m, nt, b) ==
    LET amt == Cardinality({t \in PdeCfs(b) : Crossed(m, nt, t, b)}) * CouponAmt(b)
    IN  [j \in DOMAIN V |-> V[j] + amt]

\* cir_pde.py 146-153: the call obstacles of a step, in schedule order
RECURSIVE PdeObstacles(_, _, _, _, _)
PdeObstacles(V, events, m, nt, b) ==
    IF events = << >> THEN V
    ELSE LET e == Head(events)
             V1 == IF Crossed(m, nt, e[1], b)
                   THEN [j \in DOMAIN V |-> Min(V[j], e[2] + PdeCpn(e[1], nt, b))]
                   ELSE V
         IN  PdeObstacles(V1, Tail(events), m, nt, b)

\* (mutant) the obstacle is applied before the coupon jumps
PdeJumpsObstacleFirst(V, m, nt, b) ==
    PdeCoupons(PdeObstacles(V, PdeCallEvents(b), m, nt, b), m, nt, b)

\* cir_pde.py 140-153: what a step does to the solved values
PdeJumps(V, m, nt, b) ==
    PdeObstacles(PdeCoupons(V, m, nt, b), PdeCallEvents(b), m, nt, b)

\* "np.interp(r0, r, V)"
PdeInterp(r0, r, V) ==
    IF r0 <= r[1] THEN V[1]
    ELSE IF r0 >= r[Len(r)] THEN V[Len(r)]
    ELSE LET j == CHOOSE q \in 1..(Len(r) - 1) : r[q] <= r0 /\ r0 < r[q + 1]
         IN  V[j] + RoundDiv((V[j + 1] - V[j]) * (r0 - r[j]), r[j + 1] - r[j])

PdeIdle == [pc |-> "idle"]

\* cir_pde.py 34-106: a price call starts on a curve, given the session's
\* cache or none
PdePriceCall(level, given) ==
    /\ pde.pc \in {"idle", "done"}
    /\ given => pdeCache.exists
    /\ LET b == pdeIn.bond
           r0 == level
           cache == PdeSetupCache(given, r0)
           theta == PdeTheta(pdeIn.cfg, pdeIn.params.theta, r0, cache)
           nt == PdeNt(b, pdeIn.cfg)
           dt == PdeDt(b, nt)
       IN  /\ pdeCache' = IF given THEN cache ELSE pdeCache
           /\ pde' = [pc |-> "steps", level |-> level, given |-> given, r0 |-> r0,
                   state_cache |-> cache, theta |-> theta, Nt |-> nt, dt |-> dt,
                   bands |-> PdeBands(pdeIn.cfg, pdeIn.params, theta, dt),
                   m |-> 0, solved |-> << >>,
                   V |-> [j \in 1..pdeIn.cfg.pde_grid_size |->
                            b.face + CouponAmt(b)],
                   straight |-> [j \in 1..pdeIn.cfg.pde_grid_size |->
                                   b.face + CouponAmt(b)],
                   \* the steps in which each cashflow has been added; 0 is
                   \* the terminal condition
                   added |-> [t \in CouponTimes(b) |->
                                IF t = b.T THEN {0} ELSE {}],
                   price |-> 0]
    /\ UNCHANGED pdeIn

\* cir_pde.py 133-153: one pass of the backward loop
PdeStep ==
    /\ pde.pc = "steps" /\ pde.m < pde.Nt
    /\ LET solved == PdeSolve(pde.bands, PdeRhs(pde.bands, pde.V))
           \* what the same march gives with the call schedule removed
           straight == PdeCoupons(
                           PdeSolve(pde.bands, PdeRhs(pde.bands, pde.straight)),
                           pde.m + 1, pde.Nt, pdeIn.bond)
       IN  pde' = [pde EXCEPT !.m = @ + 1, !.solved = solved,
                              !.V = PdeJumps(solved, pde.m + 1, pde.Nt, pdeIn.bond),
                              !.straight = straight,
                              !.added = [t \in DOMAIN pde.added |->
                                  pde.added[t] \cup
                                  (IF t \in PdeCfs(pdeIn.bond)
                                      /\ Crossed(pde.m + 1, pde.Nt, t, pdeIn.bond)
                                   THEN {pde.m + 1} ELSE {})]]
    /\ UNCHANGED <<pdeIn, pdeCache>>

\* cir_pde.py 155-156; the caller keeps the first cache it gets
PdeReturn ==
    /\ pde.pc = "steps" /\ pde.m = pde.Nt
    /\ pde' = [pde EXCEPT !.pc = "done",
                          !.price = PdeInterp(pde.r0, PdeGrid(pdeIn.cfg), pde.V)]
    /\ pdeCache' = IF pdeCache.exists THEN pdeCache ELSE pde.state_cache
    /\ UNCHANGED pdeIn

PdeInit ==
    /\ pdeIn \in PdeSessions
    /\ pdeCache = [exists |-> FALSE]
    /\ pde = PdeIdle

PdeNext ==
    \/ \E level \in CurveLevels, given \in BOOLEAN : PdePriceCall(level, given)
    \/ PdeStep
    \/ PdeReturn

-----------------------------------------------------------------------------
(* Trinomial tree engine: BKManualTreeEngine.price *)

\* the curve read by "ts_obj.discount": a forward rate up to half a year and
\* another beyond it (bps, continuously compounded)
TreeCurves ==
    {[short |-> 300, long |-> 300], [short |-> 300, long |-> -300],
     [short |-> -100, long |-> -100]}

TreeSessions ==
    [cfg : [bk_steps_year : {NoAttr, 4}],
     params : [a : {0, 1000, 20000, 100000}, sigma : {0, 1000}],
     curve : TreeCurves,
     bond : [T : {4, 6}, period : {2}, face : {FP}, coupon_rate : {400},
             call_schedule : {<< >>, <<<<2, 10000>>>>}]]

\* A float that may be NaN
NaN == [nan |-> TRUE, v |-> 0]
Num(x) == [nan |-> FALSE, v |-> x]

\* what ".astype(int)" makes of NaN is not defined; a build yields the most
\* negative integer or zero, the same one throughout a call
NaNCastOutcomes == {0, -1000000}

JMaxCap == 150

\* bk_tree.py 40-45: the geometry computed when no cache is given
TreeGeometry(c, params, b) ==
    LET dt == RoundDiv(FP, c.bk_steps_year)
    IN  [exists |-> TRUE,
         dt |-> dt,
         dx |-> MulFP(params.sigma, SqrtFP(3 * dt)),
         N |-> ((b.T * c.bk_steps_year) \div TPY) + 2,
         j_max |-> IF params.a > 0
                   THEN Min(((6 * FP * FP) \div (params.a * dt)) + 1, JMaxCap)
                   ELSE JMaxCap]

\* "mu = -a * js * dx" then "mu * dt / dx": 0/0 when dx is zero, else the
\* quotient as an exact fraction of FP * FP
MuDtOverDx(a, j, geo) ==
    IF geo.dx = 0 THEN NaN ELSE Num(-a * j * geo.dt)

\* "np.round(...)" of n / (FP * FP): to the nearest integer, ties to even
RoundToInt(n) ==
    IF n >= 0 THEN RoundHalfEven(n, FP * FP) ELSE -RoundHalfEven(-n, FP * FP)

\* bk_tree.py 61-66: k, pu, pm, pd of the node j
TreeNode(a, j, geo, nanCast) ==
    LET x == MuDtOverDx(a, j, geo)
    IN  IF x.nan
        THEN [k |-> nanCast, pu |-> NaN, pm |-> NaN, pd |-> NaN]
        ELSE LET k == RoundToInt(x.v)
                 eta == RoundDiv(x.v - k * FP * FP, FP)
                 pu == RoundDiv(FP, 6) + RoundDiv(MulFP(eta, eta) + eta, 2)
                 pd == RoundDiv(FP, 6) + RoundDiv(MulFP(eta, eta) - eta, 2)
             IN  [k |-> k, pu |-> Num(pu), pm |-> Num(FP - pu - pd),
                  pd |-> Num(pd)]

\* the tuple appended to "tree" for one step
TreeRow(a, geo, nanCast) ==
    [j \in (-geo.j_max)..geo.j_max |-> TreeNode(a, j, geo, nanCast)]

\* arithmetic of floats that may be NaN
FAdd(x, y) == IF x.nan \/ y.nan THEN NaN ELSE Num(x.v + y.v)
FMul(x, y) == IF x.nan \/ y.nan THEN NaN ELSE Num(MulFP(x.v, y.v))

\* Python's "min(x, y)": y when y < x, else x; no comparison with NaN is true
PyMin(x, y) == IF ~x.nan /\ ~y.nan /\ y.v < x.v THEN y ELSE x

\* v * e^n
RECURSIVE ScaleE(_, _)
ScaleE(v, n) ==
    IF n = 0 \/ v = 0 THEN v
    ELSE IF n < 0 THEN ScaleE(DivFP(v, ExpFP(FP)), n + 1)
    ELSE IF v > 3 * FP THEN ScaleE(RoundDiv(RoundDiv(v, 10) * ExpFP(FP), 1000), n - 1)
    ELSE ScaleE(MulFP(v, ExpFP(FP)), n - 1)

\* np.exp over the whole range the tree uses: e^n times the series of the
\* fractional part; arguments above 4 are taken as 4
NpExp(x) ==
    LET c == Min(x, 4 * FP)
        n == c \div FP
    IN  ScaleE(ExpFP(c - n * FP), n)

\* "np.exp(-np.exp(val + js * dx) * dt)" at the node js; below one unit
\* when the rate times dt exceeds 10
TreeDisc(val, js, geo) ==
    LET r == NpExp(val + js * geo.dx)
    IN  IF r > (10 * FP * FP) \div geo.dt THEN 0
        ELSE NpExp(-MulFP(r, geo.dt))

\* "zc[i] = ts_obj.discount((i + 1) * dt)"
TreeZc(curve, i, geo) ==
    LET t == (i + 1) * geo.dt
        kink == FP \div 2
    IN  ExpFP(-RoundDiv(curve.short * Min(t, kink)
                        + curve.long * Max(t - kink, 0), FP))

\* "mask = Q > 1e-16"
TreeMask(Q) == {j \in DOMAIN Q : ~Q[j].nan /\ Q[j].v > 0}

\* "obj(val)" of the calibration step i
RECURSIVE TreeObjSum(_, _, _, _)
TreeObjSum(Q, nodes, val, geo) ==
    IF nodes = {} THEN 0
    ELSE LET j == CHOOSE n \in nodes : TRUE
         IN  MulFP(Q[j].v, TreeDisc(val, j, geo))
             + TreeObjSum(Q, nodes \ {j}, val, geo)

TreeObj(Q, val, geo, zci) == TreeObjSum(Q, TreeMask(Q), val, geo) - zci

\* optimize.brentq on a decreasing function: the point of [lo, hi] where obj
\* changes sign
RECURSIVE BrentRoot(_, _, _, _, _)
BrentRoot(Q, geo, zci, lo, hi) ==
    IF hi - lo <= 1 THEN lo
    ELSE IF TreeObj(Q, (lo + hi) \div 2, geo, zci) >= 0
         THEN BrentRoot(Q, geo, zci, (lo + hi) \div 2, hi)
         ELSE BrentRoot(Q, geo, zci, lo, (lo + hi) \div 2)

\* brentq raises when obj has the same sign at both ends of [-12, 12]
BrentFails(Q, geo, zci) ==
    LET fa == TreeObj(Q, -12 * FP, geo, zci)
        fb == TreeObj(Q, 12 * FP, geo, zci)
    IN  (fa > 0 /\ fb > 0) \/ (fa < 0 /\ fb < 0)

\* "np.log(0.05)"
LogOfDefault == -RoundDiv(29957 * FP, 10000)

\* (mutant) a failed root search leaves the zero alpha[i] was created with
AlphaOnFailureZero(alpha, i) == 0

\* bk_tree.py 79-80: the value taken when brentq raises
AlphaOnFailure(alpha, i) == IF i > 0 THEN alpha[i] ELSE LogOfDefault

\* bk_tree.py 77-80: alpha[i]; alpha is kept 1-based, alpha[i + 1] is the
\* code's alpha[i]
TreeAlpha(Q, geo, zci, alpha, i) ==
    IF BrentFails(Q, geo, zci) THEN AlphaOnFailure(alpha, i)
    ELSE BrentRoot(Q, geo, zci, -12 * FP, 12 * FP)

\* the sum of the float contributions of a set of nodes
RECURSIVE FSum(_, _)
FSum(f, nodes) ==
    IF nodes = {} THEN Num(0)
    ELSE LET j == CHOOSE n \in nodes : TRUE
         IN  FAdd(f[j], FSum(f, nodes \ {j}))

\* bk_tree.py 82-95: Q_n, the mass each masked node passes on to the three
\* nodes it branches to that lie inside the array
TreeQNext(Q, mask, row, al, geo) ==
    LET w == [j \in mask |-> Num(MulFP(Q[j].v, TreeDisc(al, j, geo)))]
        pm == [j \in mask |-> FMul(w[j], row[j].pm)]
        pu == [j \in mask |-> FMul(w[j], row[j].pu)]
        pd == [j \in mask |-> FMul(w[j], row[j].pd)]
    IN  [m \in DOMAIN Q |->
           FAdd(FSum(pm, {j \in mask : j + row[j].k = m}),
                FAdd(FSum(pu, {j \in mask : j + row[j].k + 1 = m}),
                     FSum(pd, {j \in mask : j + row[j].k - 1 = m})))]

\* bk_tree.py 118-123: the index of the payment at tick t
TreeIdx(t, geo) == RoundHalfEven(t * FP, TPY * geo.dt)

\* "cfs.get(i, 0.0)"
TreeCfs(i, b, geo) ==
    SumOver(CouponTimes(b),
            [t \in CouponTimes(b) |->
               IF TreeIdx(t, geo) = i
               THEN CouponAmt(b) + (IF t = b.T THEN b.face ELSE 0) ELSE 0])

\* bk_tree.py 125-131: "i in calls" and "calls[i]", the last entry winning
TreeCallsAt(i, b, geo) ==
    {n \in 1..Len(b.call_schedule) :
        b.call_schedule[n][1] > 0 /\ TreeIdx(b.call_schedule[n][1], geo) = i}

TreeCallPrice(i, b, geo) ==
    LET last == CHOOSE n \in TreeCallsAt(i, b, geo) :
                    \A m \in TreeCallsAt(i, b, geo) : m <= n
    IN  b.call_schedule[last][2]

\* bk_tree.py 145-157: V_n at the node js of step i
TreeValue(V, row, al, i, js, b, geo) ==
    LET kk == row[js].k
        jm == geo.j_max
    IN  IF js = -jm \/ js = jm \/ ~(-jm < js + kk /\ js + kk < jm)
        THEN Num(0)
        ELSE LET ev == FAdd(FMul(row[js].pu, V[js + kk + 1]),
                            FAdd(FMul(row[js].pm, V[js + kk]),
                                 FMul(row[js].pd, V[js + kk - 1])))
                 val == FMul(ev, Num(TreeDisc(al, js, geo)))
                 cf == TreeCfs(i, b, geo)
                 paid == FAdd(val, Num(cf))
             IN  IF TreeCallsAt(i, b, geo) # {}
                 THEN PyMin(paid, Num(TreeCallPrice(i, b, geo) + cf))
                 ELSE paid

TreeIdle == [pc |-> "idle"]

\* (mutant) the geometry is computed on every call
TreeComputesAlways(given) == TRUE

\* bk_tree.py 40: "if state_cache is None"
TreeComputes(given) == ~given

\* bk_tree.py 28-58: a price call starts, given the session's cache or none
TreePriceCall(given) ==
    /\ tree.pc \in {"idle", "done"}
    /\ given => treeCache.exists
    /\ IF TreeComputes(given) /\ treeIn.cfg.bk_steps_year = NoAttr
       THEN tree' = [pc |-> "raised", given |-> given]
       ELSE LET geo == IF TreeComputes(given)
                       THEN TreeGeometry(treeIn.cfg, treeIn.params, treeIn.bond)
                       ELSE treeCache
            IN  \E nanCast \in NaNCastOutcomes :
                tree' = [pc |-> "build", given |-> given, state_cache |-> geo,
                         \* whether lines 41-45 ran in this call
                         computed |-> TreeComputes(given),
                         nanCast |-> IF geo.dx = 0 THEN nanCast ELSE 0,
                         i |-> 0, tree |-> << >>,
                         Q |-> [j \in (-geo.j_max)..geo.j_max |->
                                  Num(IF j = 0 THEN FP ELSE 0)],
                         alpha |-> [n \in 1..geo.N |-> 0],
                         failed |-> {},
                         V |-> << >>, value |-> Num(0)]
    /\ UNCHANGED <<treeIn, treeCache>>

\* bk_tree.py 60-67: one pass of the loop that fills the branching table
TreeBuild ==
    /\ tree.pc = "build"
    /\ tree' = [tree EXCEPT
                  !.i = IF tree.i + 1 = tree.state_cache.N - 1 THEN 0
                        ELSE @ + 1,
                  !.pc = IF tree.i + 1 = tree.state_cache.N - 1
                         THEN "calibrate" ELSE @,
                  !.tree = Append(@, TreeRow(treeIn.params.a,
                                             tree.state_cache, tree.nanCast))]
    /\ UNCHANGED <<treeIn, treeCache>>

\* bk_tree.py 69-95: one pass of the forward calibration; "failed" notes the
\* steps whose root search raised
TreeCalibrate ==
    /\ tree.pc = "calibrate" /\ tree.i < tree.state_cache.N - 1
    /\ TreeMask(tree.Q) # {}
    /\ LET geo == tree.state_cache
           i == tree.i
       IN  \E zci \in {TreeZc(treeIn.curve, i, geo)} :
           \E al \in {TreeAlpha(tree.Q, geo, zci, tree.alpha, i)} :
              tree' = [tree EXCEPT
                         !.alpha[i + 1] = al,
                         !.failed = IF BrentFails(tree.Q, geo, zci)
                                    THEN @ \cup {i} ELSE @,
                         !.Q = TreeQNext(tree.Q, TreeMask(tree.Q),
                                         tree.tree[i + 1], al, geo),
                         !.i = i + 1]
    /\ UNCHANGED <<treeIn, treeCache>>

\* bk_tree.py 71-72 and 97-138: the calibration loop is left, the terminal
\* values are set
TreeTerminal ==
    /\ tree.pc = "calibrate"
    /\ tree.i = tree.state_cache.N - 1 \/ TreeMask(tree.Q) = {}
    /\ LET geo == tree.state_cache
       IN  tree' = [tree EXCEPT
                      !.pc = "induct",
                      !.i = geo.N - 2,
                      !.V = [j \in (-geo.j_max)..geo.j_max |->
                               Num(TreeCfs(geo.N - 1, treeIn.bond, geo))]]
    /\ UNCHANGED <<treeIn, treeCache>>

\* bk_tree.py 140-159: one pass of the backward induction
TreeInduct ==
    /\ tree.pc = "induct" /\ tree.i >= 0
    /\ LET geo == tree.state_cache
           i == tree.i
       IN  tree' = [tree EXCEPT
                      !.V = [js \in DOMAIN tree.V |->
                               TreeValue(tree.V, tree.tree[i + 1],
                                         tree.alpha[i + 1], i, js,
                                         treeIn.bond, geo)],
                      !.i = i - 1]
    /\ UNCHANGED <<treeIn, treeCache>>

\* bk_tree.py 161: the value at the root and the cache are returned; the
\* caller keeps the cache
TreeFinish ==
    /\ tree.pc = "induct" /\ tree.i < 0
    /\ tree' = [tree EXCEPT !.pc = "done", !.value = tree.V[0]]
    /\ treeCache' = IF treeCache.exists THEN treeCache ELSE tree.state_cache
    /\ UNCHANGED treeIn

TreeInit ==
    /\ treeIn \in TreeSessions
    /\ treeCache = [exists |-> FALSE]
    /\ tree = TreeIdle

TreeNext ==
    \/ \E given \in BOOLEAN : TreePriceCall(given)
    \/ TreeBuild
    \/ TreeCalibrate
    \/ TreeTerminal
    \/ TreeInduct
    \/ TreeFinish

-----------------------------------------------------------------------------
(* Claims about the tree engine, checked under SpecTree *)

ValidProbabilities(node) ==
    /\ ~node.pu.nan /\ ~node.pm.nan /\ ~node.pd.nan
    /\ node.pu.v >= 0 /\ node.pm.v >= 0 /\ node.pd.v >= 0
    /\ node.pu.v + node.pm.v + node.pd.v = FP

\* C9 (as claimed). For every step of the branching table and every node
\* index j in [-j_max, j_max], pu, pm and pd are numbers, each at least 0,
\* that add up to 1, whatever a and sigma the engine was given.
C9_BranchingProbabilitiesValid ==
    tree.pc \in {"build", "done"} =>
        \A i \in 1..Len(tree.tree) :
            \A j \in DOMAIN tree.tree[i] : ValidProbabilities(tree.tree[i][j])

\* The same holds on every table built with a non-zero dx.
BranchingValidUnlessDxZero ==
    (tree.pc \in {"build", "done"} /\ tree.state_cache.dx # 0) =>
        \A i \in 1..Len(tree.tree) :
            \A j \in DOMAIN tree.tree[i] : ValidProbabilities(tree.tree[i][j])

\* C14. A root search that fails at the calibration step i does not abort
\* the call: alpha[i] is alpha[i-1] when i > 0 and log(0.05) at step 0, the
\* step is completed like any other and the loop goes on to step i + 1; a
\* call only raises where it starts.
C14_RootFailureFallsBack ==
    /\ [](tree.pc \in {"calibrate", "induct", "done"} =>
            \A i \in tree.failed :
                tree.alpha[i + 1] = IF i > 0 THEN tree.alpha[i]
                                    ELSE LogOfDefault)
    /\ [][/\ tree'.pc = "raised" => tree.pc \in {"idle", "done"}
          /\ (tree.pc = "calibrate" /\ tree'.pc = "calibrate"
              /\ BrentFails(tree.Q, tree.state_cache,
                            TreeZc(treeIn.curve, tree.i, tree.state_cache))) =>
                 /\ tree'.i = tree.i + 1
                 /\ tree'.failed = tree.failed \cup {tree.i}
                 /\ tree'.Q = TreeQNext(tree.Q, TreeMask(tree.Q),
                                        tree.tree[tree.i + 1],
                                        tree'.alpha[tree.i + 1],
                                        tree.state_cache)]_vars

\* C14 witness: a call has returned a number although the root search failed
\* at step 0 and again at a later step.
C14_PricedAfterFailedSteps ==
    /\ tree.pc = "done" /\ ~tree.value.nan /\ tree.value.v > 0
    /\ 0 \in tree.failed /\ \E i \in tree.failed : i > 0

\* C15 (as claimed, for the tree engine). A price call given a
\* non-positive mean reversion or a non-positive volatility fails: it never
\* returns a price.
C15_InvalidParametersFail ==
    (treeIn.params.a <= 0 \/ treeIn.params.sigma <= 0) => tree.pc # "done"

\* the backward step whose values tree.V holds, once one has been made
TreeStepDone == tree.i + 1
TreeAfterStep == tree.pc = "induct" /\ tree.i < tree.state_cache.N - 2

\* every node's value is a number at most the strike of the step plus the
\* coupon mapped to it
TreeCapped ==
    LET geo == tree.state_cache
        cap == TreeCallPrice(TreeStepDone, treeIn.bond, geo)
               + TreeCfs(TreeStepDone, treeIn.bond, geo)
    IN  \A js \in DOMAIN tree.V : ~tree.V[js].nan /\ tree.V[js].v <= cap

\* C21 (as claimed). After every backward step that is a call step, every
\* node's value is at most the call strike plus the coupon mapped to the step.
C21_CallStepValuesCapped ==
    (TreeAfterStep
     /\ TreeCallsAt(TreeStepDone, treeIn.bond, tree.state_cache) # {}) =>
        TreeCapped

\* The cap of C21 holds on every tree whose dx is not zero.
CallStepValuesCappedUnlessDxZero ==
    (TreeAfterStep /\ tree.state_cache.dx # 0
     /\ TreeCallsAt(TreeStepDone, treeIn.bond, tree.state_cache) # {}) =>
        TreeCapped

\* a price call of the tree is past its set-up
TreeSetUp == tree.pc \in {"build", "calibrate", "induct", "done"}

\* C24. The tree computes dt, dx, N and j_max only on a call made with no
\* cache.  A call given a cache works on the four values held by the cache,
\* does not compute them, and no step of it changes the cache.
C24_GeometryOnlyWithoutCache ==
    /\ [](TreeSetUp =>
            /\ tree.computed <=> ~tree.given
            /\ tree.given => tree.state_cache = treeCache
            /\ ~tree.given =>
                  tree.state_cache =
                      TreeGeometry(treeIn.cfg, treeIn.params, treeIn.bond))
    /\ [][(tree'.pc # "idle" /\ tree'.given) => treeCache' = treeCache]_vars

\* C24 witness: a call given the cache of an earlier call has returned a
\* price, having read a geometry it did not compute.
C24_CachedCallReturned ==
    /\ tree.pc = "done" /\ tree.given /\ ~tree.computed
    /\ treeCache.exists /\ tree.state_cache = treeCache
    /\ treeCache.j_max < JMaxCap
    /\ ~tree.value.nan /\ tree.value.v > 0

\* the nodes that carry state probability at the step about to be calibrated
\* and whose three branches all end inside the tree
TreeBranchesInside(j) ==
    LET kk == tree.tree[tree.i + 1][j].k
        jm == tree.state_cache.j_max
    IN  -jm <= j + kk - 1 /\ j + kk + 1 <= jm

\* C26 (as claimed). At every step of a tree whose spacing dx is not zero,
\* the three branch targets j+k-1, j+k and j+k+1 of every node that carries
\* state probability lie in [-j_max, j_max].
C26_BranchTargetsInsideTree ==
    (/\ tree.pc = "calibrate" /\ tree.i < tree.state_cache.N - 1
     /\ tree.state_cache.dx # 0) =>
        \A j \in TreeMask(tree.Q) : TreeBranchesInside(j)

-----------------------------------------------------------------------------
(* Claims about the Monte-Carlo engine, checked under SpecMC *)

\* C5. On one state cache the regression coefficients are fitted only by a
\* price call that starts with an empty regression set: a call that starts
\* with a non-empty set uses, at every call step, the coefficients the set held
\* when the call started, and leaves the set as it was, keys and values.
C5_CoefficientsFrozenAfterBaseCall ==
    (mc.pc \in {"steps", "done"} /\ mc.regs0 # EmptyMap) =>
        /\ WorkCache.regressions = mc.regs0
        /\ \A i \in DOMAIN mc.used :
              i \in DOMAIN mc.regs0 /\ mc.used[i] = mc.regs0[i]

\* C5 witness: a call on the +dy curve has finished on a cache whose
\* coefficients were fitted by an earlier call on another curve, and it went
\* through a call step.
C5_BumpedCallReusedCoefficients ==
    /\ mc.pc = "done" /\ mc.given
    /\ mc.level > Unbumped /\ mcRef.cache_level = Unbumped
    /\ mc.regs0 # EmptyMap /\ mc.used # EmptyMap

\* C6. The matrix of normal draws is drawn only by a call with no cache; a
\* call given a cache works on the matrix stored in it, and no step of any
\* call redraws, replaces or modifies the matrix of an existing cache.
C6_MatrixDrawnOnceAndKept ==
    /\ []((mc.pc \in {"steps", "done"} /\ mc.given) =>
             (mc.rng = mc.rng0 /\ mcCache.rng = mc.rng0))
    /\ [][mcCache.exists =>
             (mcCache'.exists /\ mcCache'.rng = mcCache.rng)]_vars

\* C6 witness: a second call given the cache has finished, on another curve
\* than the call that drew the matrix, after the process-wide generator moved.
C6_LaterCallsShareMatrix ==
    /\ mc.pc = "done" /\ mc.given
    /\ mc.level < Unbumped /\ mcRef.cache_level = Unbumped
    /\ mc.regs0 # EmptyMap
    /\ mcRef.np_used

\* C7. Two price calls with no cache in one session (same seed, parameters
\* and bond) on the unbumped curve return the same price and the same
\* standard error, whatever calls and whatever use of np.random came in
\* between.
C7_CachelessCallsRepeat ==
    (mc.pc = "done" /\ ~mc.given /\ mc.level = Unbumped /\ mcRef.set) =>
        /\ mc.price = mcRef.price
        /\ mc.sem = mcRef.sem

\* C7 witness: a call with no cache on the unbumped curve repeats an earlier
\* one; since that one returned np.random has been used and calls on a
\* bumped curve or on the session's cache have been made; the paths' values
\* differ.
C7_RepeatAfterGlobalRngUse ==
    /\ mc.pc = "done" /\ mc.repeat
    /\ mcRef.np_used /\ mcRef.between
    /\ mc.sem > 0

\* C10 (as claimed, for the Monte-Carlo engine). With an empty call schedule
\* the returned price is the sum of the bond's cashflows, each times the
\* curve's discount factor at its payment time - up to four standard errors
\* of the path average and the rounding of the arithmetic.
C10_StraightBondPriceMatchesCurve ==
    (mc.pc = "done" /\ mcIn.bond.call_schedule = << >>) =>
        Abs(mc.price - StraightPV(mc.level, mcIn.bond)) <= 4 * mc.sem + 10

\* the running values of the same paths on the same curve when the call
\* schedule is removed: steps N-1 down to i, discounting and cashflows only
RECURSIVE McStraightV(_)
McStraightV(i) ==
    IF i = mc.N THEN [p \in DOMAIN mc.X |-> 0]
    ELSE LET V == McStraightV(i + 1)
         IN  [p \in DOMAIN V |->
                MulFP(V[p], ExpFP(-MulFP(mc.X[p][i + 1] + mc.alpha[i + 1], mc.dt)))
                + StepCashflow(i, mc.N, mcIn.bond)]

\* C11 (as claimed, for the Monte-Carlo engine). On the same curve, with the
\* same parameters, paths and coupon schedule, the price of a call with a
\* non-empty call schedule is at most the price with the schedule removed
\* (up to the rounding of the arithmetic).
C11_CallableAtMostStraight ==
    (mc.pc = "done" /\ mcIn.bond.call_schedule # << >>) =>
        mc.price <= McMean(McStraightV(0)) + 2

\* C16 (as claimed). When the least-squares fit of a base run fails, the
\* call raises at once: it stores no coefficients for that step and never
\* returns a price.
C16_RegressionFailureRaises ==
    (mc.pc \in {"steps", "done"} /\ mc.is_base_run /\ ~mcIn.svd_converges) =>
        /\ DOMAIN WorkCache.regressions = {}
        /\ mc.pc # "done"

\* C20. At every call step a path is called exactly when its continuation
\* estimate less the cashflow added in the step is strictly above the strike;
\* after the step a called path is worth the strike plus that cashflow and
\* every other path what it was worth before the decision.
C20_ExerciseRule ==
    (mc.pc = "steps" /\ mc.decision.call) =>
        LET d == mc.decision
        IN  \A p \in DOMAIN mc.V :
               /\ d.exercise[p] <=> d.cont_val[p] - d.curr_amt > d.strike
               /\ mc.V[p] = IF d.exercise[p] THEN d.strike + d.curr_amt
                            ELSE d.before[p]

\* C20 witness: a call step on a coupon date has called one path and left
\* another, whose estimate was not above the strike, alone.
C20_SomePathsCalled ==
    /\ mc.pc = "steps" /\ mc.decision.call /\ mc.decision.curr_amt > 0
    /\ \E p, q \in DOMAIN mc.V :
          /\ mc.decision.exercise[p] /\ mc.V[p] # mc.decision.before[p]
          /\ ~mc.decision.exercise[q]
          /\ mc.decision.cont_val[q] - mc.decision.curr_amt <= mc.decision.strike


\* a backward induction of the Monte-Carlo engine is complete
McInducted == (mc.pc = "steps" /\ mc.i < 0) \/ mc.pc = "done"

\* C30 (as claimed). Over a complete backward induction of the Monte-Carlo
\* engine every entry of the call schedule after the valuation date has had
\* exactly one exercise decision made with its own strike, and no other
\* decision was made - also when two call dates are mapped to the same step
\* and when a call date is mapped to the first or the last step.
C30_EveryCallEntryDecidedOnce ==
    McInducted =>
        LET cs == mcIn.bond.call_schedule
            live == {k \in 1..Len(cs) : cs[k][1] > 0}
        IN  /\ \A k \in live :
                  Cardinality({d \in mc.decided : d[2] = cs[k][2]}) = 1
            /\ Cardinality(mc.decided) = Cardinality(live)

-----------------------------------------------------------------------------
(* Claims about the PDE engine, checked under SpecPDE *)

\* the call events whose time lies in the interval crossed by the last step
PdeEventsCrossed ==
    {k \in 1..Len(PdeCallEvents(pdeIn.bond)) :
        Crossed(pde.m, pde.Nt, PdeCallEvents(pdeIn.bond)[k][1], pdeIn.bond)}

PdeBound(k) ==
    LET e == PdeCallEvents(pdeIn.bond)[k]
    IN  e[2] + PdeCpn(e[1], pde.Nt, pdeIn.bond)

C19_R0BaseRecordedOnce ==
    /\ [](pde.pc \in {"steps", "done"} =>
            /\ pde.state_cache.r0_base =
                  IF pde.given THEN pdeCache.r0_base ELSE pde.r0
            /\ pdeIn.cfg.pde_shift_theta_with_curve =>
                  /\ pde.theta = pdeIn.params.theta
                                 + (pde.r0 - pde.state_cache.r0_base)
                  /\ ~pde.given => pde.theta = pdeIn.params.theta)
    /\ [][pdeCache.exists => pdeCache' = pdeCache]_vars

\* C19 witness: a call on a bumped curve, given the cache of a call on
\* another curve, has priced with a shifted theta.
C19_BumpedCallShiftsTheta ==
    /\ pde.pc = "done" /\ pde.given
    /\ pde.r0 # pdeCache.r0_base
    /\ pde.theta = pdeIn.params.theta + (pde.r0 - pdeCache.r0_base)
    /\ pde.theta # pdeIn.params.theta

\* C22 (as claimed). The coupon added to the strike in the obstacle of a
\* call time crossed in a step is non-zero only when a coupon is paid in the
\* interval crossed in that step, the one that holds the call time.
C22_ObstacleCouponCoincident ==
    (pde.pc = "steps" /\ pde.m >= 1) =>
        \A n \in 1..Len(PdeCallEvents(pdeIn.bond)) :
            LET ct == PdeCallEvents(pdeIn.bond)[n][1]
            IN  (Crossed(pde.m, pde.Nt, ct, pdeIn.bond)
                 /\ PdeCpn(ct, pde.Nt, pdeIn.bond) # 0) =>
                    \E t \in PdeCfs(pdeIn.bond) :
                        Crossed(pde.m, pde.Nt, t, pdeIn.bond)

-----------------------------------------------------------------------------
(* Engine price calls running side by side, each session with its own cache *)

Engines == {"mc", "pde", "tree"}

\* the engine has a price call in flight
Active(e) ==
    CASE e = "mc" -> mc.pc = "steps"
      [] e = "pde" -> pde.pc = "steps"
      [] e = "tree" -> tree.pc \in {"build", "calibrate", "induct"}

Returned_(e) ==
    CASE e = "mc" -> mc.pc = "done"
      [] e = "pde" -> pde.pc = "done"
      [] e = "tree" -> tree.pc = "done"

\* whether the engine's last call was given the session's cache
GivenCache(e) ==
    CASE e = "mc" -> mc.given
      [] e = "pde" -> pde.given
      [] e = "tree" -> tree.given

\* what the engine's last call returned: the price and the cache
Outcome(e) ==
    CASE e = "mc" -> [price |-> <<mc.price, mc.sem>>, cache |-> WorkCache]
      [] e = "pde" -> [price |-> pde.price, cache |-> pde.state_cache]
      [] e = "tree" -> [price |-> tree.value, cache |-> tree.state_cache]

NoOutcome == [set |-> FALSE]
NoPar == [made |-> [e \in Engines |-> 0],
          solo |-> [e \in Engines |-> TRUE],
          ref |-> [e \in Engines |-> [g \in BOOLEAN |-> NoOutcome]]]

\* the highest of the curves: the one a bumped call is made on
BumpedUp == CHOOSE l \in CurveLevels : \A m \in CurveLevels : m <= l

\* the engines that take their first two calls before e does
Before(e) ==
    CASE e = "mc" -> {}
      [] e = "pde" -> {"mc"}
      [] e = "tree" -> {"mc", "pde"}

\* Every engine is called four times: without a cache, with the cache that
\* call returned, and the same two again.  The first two calls of an engine
\* run with no other call in flight, one engine after the other, and what
\* they return is kept; the last two run once all engines have made their
\* first two, a Monte-Carlo call and a PDE call side by side in any
\* interleaving, a tree call by itself.
NextGiven(e) == par.made[e] % 2 = 1

MayStart(e) ==
    LET others == {o \in Engines \ {e} : Active(o)}
    IN  /\ par.made[e] < 4
        /\ IF par.made[e] < 2
           THEN /\ others = {}
                /\ \A o \in Before(e) : par.made[o] >= 2
           ELSE /\ \A o \in Engines : par.made[o] >= 2
                /\ \A o \in others : par.made[o] > 2 /\ {e, o} = {"mc", "pde"}

\* One step of engine e.  starts: the step begins a call; done, out: whether
\* the call has returned after the step, and what.
ParNote(e, starts, done, out) ==
    LET others == {o \in Engines \ {e} : Active(o)}
        made == IF starts THEN [par.made EXCEPT ![e] = @ + 1] ELSE par.made
        given == made[e] % 2 = 0
    IN  /\ starts => MayStart(e)
        /\ par' = [made |-> made,
                   solo |-> [o \in Engines |->
                               IF o = e
                               THEN (IF starts THEN others = {} ELSE par.solo[e])
                               ELSE IF o \in others THEN FALSE ELSE par.solo[o]],
                   ref |-> IF done /\ made[e] <= 2
                           THEN [par.ref EXCEPT ![e][given] =
                                    [set |-> TRUE, out |-> out]]
                           ELSE par.ref]

McPar ==
    /\ \/ McPriceCall(IF NextGiven("mc") THEN BumpedUp ELSE Unbumped,
                      NextGiven("mc"))
       \/ McStep
       \/ McReturn
    /\ ParNote("mc", ~Active("mc"), mc'.pc = "done",
               [price |-> <<mc'.price, mc'.sem>>,
                cache |-> IF mc'.given THEN mcCache' ELSE mc'.fresh])
    /\ UNCHANGED <<orchVars, pdeVars, treeVars>>

PdePar ==
    /\ \/ PdePriceCall(IF NextGiven("pde") THEN BumpedUp ELSE Unbumped,
                       NextGiven("pde"))
       \/ PdeStep
       \/ PdeReturn
    /\ ParNote("pde", ~Active("pde"), pde'.pc = "done",
               [price |-> pde'.price, cache |-> pde'.state_cache])
    /\ UNCHANGED <<orchVars, mcVars, treeVars>>

TreePar ==
    /\ \/ TreePriceCall(NextGiven("tree"))
       \/ TreeBuild
       \/ TreeCalibrate
       \/ TreeTerminal
       \/ TreeInduct
       \/ TreeFinish
    /\ ParNote("tree", ~Active("tree"), tree'.pc = "done",
               [price |-> tree'.value, cache |-> tree'.state_cache])
    /\ UNCHANGED <<orchVars, mcVars, pdeVars>>

\* other code of the process using np.random while the calls run
NpRandomPar ==
    /\ \A e \in Engines : par.made[e] >= 2
    /\ \E e \in Engines : par.made[e] < 4 \/ Active(e)
    /\ NpRandomUse
    /\ UNCHANGED <<orchVars, pdeVars, treeVars, parVars>>

ParInit ==
    /\ mcIn \in {s \in McSessions :
                    /\ s.svd_converges /\ s.cfg.mc_paths = 3 /\ s.bond.T = 6
                    /\ s.cfg.mc_seed = 1
                    /\ s.params.a # 0 /\ Len(s.bond.call_schedule) = 2
                    /\ s.bond.call_schedule # EarlyCalls}
    /\ mcCache = [exists |-> FALSE] /\ mc = McIdle /\ mcRef = NoResult
    /\ np_random = 0
    /\ pdeIn \in {s \in PdeSessions :
                    /\ s.cfg.pde_shift_theta_with_curve
                    /\ s.cfg.pde_steps_year = 2 /\ s.bond.T = 4
                    /\ s.params.sigma = 200
                    /\ Len(s.bond.call_schedule) = 1}
    /\ pdeCache = [exists |-> FALSE] /\ pde = PdeIdle
    /\ treeIn \in {s \in TreeSessions :
                    /\ s.cfg.bk_steps_year # NoAttr /\ s.params.a = 20000
                    /\ s.params.sigma # 0 /\ s.curve.short = 300
                    /\ s.curve.long = 300
                    /\ s.bond.T = 4 /\ s.bond.call_schedule # << >>}
    /\ treeCache = [exists |-> FALSE] /\ tree = TreeIdle
    /\ par = NoPar

\* a backward induction of the PDE engine is complete
PdeInducted == (pde.pc = "steps" /\ pde.m = pde.Nt) \/ pde.pc = "done"

\* C23. Over a complete backward induction every cashflow after the
\* valuation date has been added exactly once: by the Monte-Carlo engine in
\* the one step i with t_i < ct <= t_(i+1), by the PDE engine in the one step
\* that crosses [curr_t, prev_t) around ct, the payment at maturity once,
\* through the terminal condition.  While the induction runs no cashflow has
\* been added twice.
C23_CashflowsAddedOnce ==
    /\ mc.pc \in {"steps", "done"} =>
         \A t \in CouponTimes(mcIn.bond) :
            /\ Cardinality(mc.added[t]) <= 1
            /\ McInducted => Cardinality(mc.added[t]) = 1
            /\ \A i \in mc.added[t] :
                  /\ i \in 0..(mc.N - 1)
                  /\ i * mcIn.bond.T < t * mc.N
                  /\ t * mc.N <= (i + 1) * mcIn.bond.T
    /\ pde.pc \in {"steps", "done"} =>
         \A t \in CouponTimes(pdeIn.bond) :
            /\ Cardinality(pde.added[t]) <= 1
            /\ PdeInducted => Cardinality(pde.added[t]) = 1
            /\ \A m \in pde.added[t] :
                  IF t = pdeIn.bond.T THEN m = 0
                  ELSE /\ m \in 1..pde.Nt
                       /\ (pde.Nt - m) * pdeIn.bond.T <= t * pde.Nt
                       /\ t * pde.Nt < (pde.Nt - m + 1) * pdeIn.bond.T

\* C23 witness: both engines have completed an induction over a bond with a
\* coupon before maturity, the Monte-Carlo one with a coupon paid exactly at
\* an inner point of its time grid.
C23_BothInductionsComplete ==
    /\ mc.pc = "done" /\ pde.pc = "done"
    /\ \E t \in CouponTimes(mcIn.bond) :
          /\ t < mcIn.bond.T
          /\ \E i \in 1..(mc.N - 1) : i * mcIn.bond.T = t * mc.N
    /\ \E t \in PdeCfs(pdeIn.bond) : pde.added[t] # {}
    /\ pde.added[pdeIn.bond.T] = {0}

\* C17. Engine calls of different sessions that run at the same time, each
\* with the cache of its own session, do not interfere: whatever the
\* interleaving, a call returns the price and leaves the cache that the call
\* of the same kind returned when the calls ran one after the other.
C17_ConcurrentCallsMatchSequential ==
    \A e \in Engines :
        (Returned_(e) /\ par.made[e] > 2) =>
            /\ par.ref[e][GivenCache(e)].set
            /\ Outcome(e) = par.ref[e][GivenCache(e)].out

\* C17 witness: a Monte-Carlo call and a PDE call, both given their caches,
\* have both returned after running interleaved, and each kind had been run
\* alone before.
C17_OverlappedCallsReturned ==
    /\ Returned_("mc") /\ Returned_("pde")
    /\ mc.given /\ pde.given
    /\ par.made["mc"] = 4 /\ par.made["pde"] = 4
    /\ ~par.solo["mc"] /\ ~par.solo["pde"]
    /\ mc.price > 0 /\ pde.price > 0

\* C18. A price call of any of the three engines, base or bumped, writes
\* only to its own locals and to the state cache: the params and bond data
\* of every session, the link of the curve handle and the process-wide
\* random state are after each of its steps what they were before.
C18_EngineWritesOnlyCache ==
    [][(mc' # mc \/ pde' # pde \/ tree' # tree) =>
          /\ mcIn' = mcIn /\ pdeIn' = pdeIn /\ treeIn' = treeIn
          /\ ts_base' = ts_base
          /\ np_random' = np_random]_vars

\* C18 witness: all three engines have returned from a call given a cache,
\* after other code had moved the process-wide random state.
C18_AllEnginesReturned ==
    /\ Returned_("mc") /\ Returned_("pde") /\ Returned_("tree")
    /\ mc.given /\ pde.given /\ tree.given
    /\ \A e \in Engines : par.made[e] = 4
    /\ np_random # 0

-----------------------------------------------------------------------------
(* Specifications *)

OrchIdle ==
    /\ ts_base = << >>
    /\ cfg = [risk_bump_bps |-> 0, bk_steps_year |-> NoAttr]
    /\ accrued = 0
    /\ pc = [p \in Procs |-> "idle"]
    /\ op = [p \in Procs |-> NoOp]
    /\ base_ptr = [p \in Procs |-> << >>]
    /\ state = [p \in Procs |-> None]
    /\ prices = [p \in Procs |-> NoPrices]
    /\ exc = [p \in Procs |-> FALSE]
    /\ entry = [p \in Procs |-> << >>]
    /\ calls = [p \in Procs |-> << >>]
    /\ ret = [p \in Procs |-> NoRet]

McOff ==
    /\ mcIn = [off |-> TRUE]
    /\ mcCache = [exists |-> FALSE]
    /\ mc = McIdle
    /\ mcRef = NoResult
    /\ np_random = 0

PdeOff ==
    /\ pdeIn = [off |-> TRUE]
    /\ pdeCache = [exists |-> FALSE]
    /\ pde = PdeIdle

TreeOff ==
    /\ treeIn = [off |-> TRUE]
    /\ treeCache = [exists |-> FALSE]
    /\ tree = TreeIdle

ParOff == par = NoPar

\* The orchestrator, used by one caller at a time
Init == OrchInit /\ McOff /\ PdeOff /\ TreeOff /\ ParOff
Next == (\E p \in Procs : OrchStep(p)) /\ UNCHANGED <<mcVars, pdeVars, treeVars, parVars>>
Spec == Init /\ [][Next]_vars

\* The orchestrator with the operations of two callers interleaved
InitConc == ConcInit /\ McOff /\ PdeOff /\ TreeOff /\ ParOff
NextConc ==
    (\E p \in ConcCallers : ConcStep(p))
    /\ UNCHANGED <<mcVars, pdeVars, treeVars, parVars>>
SpecConc == InitConc /\ [][NextConc]_vars

\* The Monte-Carlo engine called repeatedly within one session
InitMC == McInit /\ OrchIdle /\ PdeOff /\ TreeOff /\ ParOff
NextMC == McNext /\ UNCHANGED <<orchVars, pdeVars, treeVars, parVars>>
SpecMC == InitMC /\ [][NextMC]_vars

\* The PDE engine called repeatedly within one session
InitPDE == PdeInit /\ OrchIdle /\ McOff /\ TreeOff /\ ParOff
NextPDE == PdeNext /\ UNCHANGED <<orchVars, mcVars, treeVars, parVars>>
SpecPDE == InitPDE /\ [][NextPDE]_vars

\* The tree engine called repeatedly within one session
InitTree == TreeInit /\ OrchIdle /\ McOff /\ PdeOff /\ ParOff
NextTree == TreeNext /\ UNCHANGED <<orchVars, mcVars, pdeVars, parVars>>
SpecTree == InitTree /\ [][NextTree]_vars

\* Calls of the three engines in one process, two of them side by side
InitPar == ParInit /\ OrchIdle
NextPar == McPar \/ PdePar \/ TreePar \/ NpRandomPar
SpecPar == InitPar /\ [][NextPar]_vars

=============================================================================
